---- MODULE Spec2Model ----
(***************************************************************************)
(* The playfield of src/js/grid.js (class Grid, lines 17-775) together     *)
(* with the piece catalog of src/js/tetromino.js and the score tracker     *)
(* (class Stats).  One action per public method of Grid; every helper the  *)
(* method calls is an operator on the record of the Grid's fields.         *)
(*                                                                         *)
(* Colours are RGBA tuples in thousandths (0.647 is 647).  The clock is    *)
(* in milliseconds since the playfield was constructed.                    *)
(*                                                                         *)
(* Spec is the playfield driven through its public methods.  SpecStats     *)
(* drives the score tracker alone, SpecRows calls clearCompletedRows on    *)
(* stacks of rows, SpecConstruction calls the constructor of Grid.         *)
(* SpecTicks is the playfield left to the interval timer of the driver     *)
(* once the player has stopped.  SpecClient is the WebSocketClient (class  *)
(* WebSocketClient) with its sockets and reconnect timers.                 *)
(***************************************************************************)
EXTENDS Integers, Sequences, FiniteSets, TLC

\* ------------------------------------------------------------------------
\* Bounds of the model
\* ------------------------------------------------------------------------
\* new Grid(width, height): the smallest playfield on which every shape
\* spawns in bounds and the I piece can stand upright.
width == 5

height == 4

\* Date.now() returns one of the first MaxTime + 1 multiples of half the
\* lock delay.
MaxTime == 2

\* The clock of SpecTicks stops at MaxTickTime halves of the lock delay.
MaxTickTime == 24

\* The player plays until MaxPlayedCommits pieces are committed.
MaxPlayedCommits == 1

\* No behaviour of SpecTicks commits more than MaxTickCommits pieces.
MaxTickCommits == 3

\* Sockets one client creates in one behaviour.
MaxSockets == 6

\* Messages in the queue of the client.
MaxQueue == 2

\* ws.send calls in one behaviour.
MaxSent == 2

\* Turns of the loop of onopen that are followed.
MaxFlushTurns == 4

\* Pieces committed to the static grid in one behaviour.
MaxCommits == 2

\* Shapes drawn from the bag in one behaviour: two bags and one draw more.
MaxDraws == 15

\* Lines counted by a score tracker used on its own: levels 1 to 3.
MaxLines == 24

\* new Grid(w, h) is tried with w and h from -MaxDimension to MaxDimension.
MaxDimension == 5

\* Calls of setUpdateCallback on one score tracker.
MaxRegistrations == 2

\* The listeners handed to setUpdateCallback: the driver's updateStatsDisplay
\* and one more.
Callbacks == {"updateStatsDisplay", "other"}

\* The values Math.random() returns, in thousandths (0 and 0.25).  The six
\* calls of one refillBag return the same value, so that a refill leaves one
\* of two bags: the first draws are I, L, J, Z or O, L, J, Z.
RandomValues == {0, 250}

\* ------------------------------------------------------------------------
\* Program constants
\* ------------------------------------------------------------------------
lockDelayMs == 500

SCORE_SINGLE == 100

SCORE_DOUBLE == 300

SCORE_TRIPLE == 500

SCORE_TETRIS == 800

topRow == height - 1

totalCells == width * height

STATE_ORDER == <<"0", "R", "2", "L">>

\* Object.keys(TETROMINOES): the insertion order of CELL_POSITIONS.
SHAPE_KEYS == <<"I", "O", "T", "S", "Z", "J", "L">>

Shapes == {SHAPE_KEYS[i] : i \in 1..Len(SHAPE_KEYS)}

CELL_POSITIONS ==
  [I |-> << <<0, -1>>, <<0, 0>>, <<0, 1>>, <<0, 2>> >>,
   O |-> << <<-1, 0>>, <<-1, 1>>, <<0, 0>>, <<0, 1>> >>,
   T |-> << <<-1, 0>>, <<0, -1>>, <<0, 0>>, <<0, 1>> >>,
   S |-> << <<-1, 0>>, <<-1, 1>>, <<0, -1>>, <<0, 0>> >>,
   Z |-> << <<-1, -1>>, <<-1, 0>>, <<0, 0>>, <<0, 1>> >>,
   J |-> << <<-1, -1>>, <<0, -1>>, <<0, 0>>, <<0, 1>> >>,
   L |-> << <<-1, 1>>, <<0, -1>>, <<0, 0>>, <<0, 1>> >>]

COLORS ==
  [I |-> <<0, 1000, 1000, 1000>>,
   O |-> <<1000, 1000, 0, 1000>>,
   T |-> <<1000, 0, 1000, 1000>>,
   S |-> <<0, 1000, 0, 1000>>,
   Z |-> <<1000, 0, 0, 1000>>,
   J |-> <<0, 0, 1000, 1000>>,
   L |-> <<1000, 647, 0, 1000>>]

GRAY == <<500, 500, 500, 1000>>

KICKS_JLSTZ ==
  [x \in {"0R", "2R"} |-> << <<0, 0>>, <<-1, 0>>, <<-1, 1>>, <<0, -2>>, <<-1, -2>> >>] @@
  [x \in {"0L", "2L"} |-> << <<0, 0>>, <<1, 0>>, <<1, 1>>, <<0, -2>>, <<1, -2>> >>] @@
  [x \in {"R0", "R2"} |-> << <<0, 0>>, <<1, 0>>, <<1, -1>>, <<0, 2>>, <<1, 2>> >>] @@
  [x \in {"L2", "L0"} |-> << <<0, 0>>, <<-1, 0>>, <<-1, -1>>, <<0, 2>>, <<-1, 2>> >>]

KICKS_I ==
  [x \in {"0R", "L2"} |-> << <<0, 0>>, <<-2, 0>>, <<1, 0>>, <<-2, -1>>, <<1, 2>> >>] @@
  [x \in {"2R", "L0"} |-> << <<0, 0>>, <<1, 0>>, <<-2, 0>>, <<1, -2>>, <<-2, 1>> >>] @@
  [x \in {"0L", "R2"} |-> << <<0, 0>>, <<-1, 0>>, <<2, 0>>, <<-1, 2>>, <<2, -1>> >>] @@
  [x \in {"2L", "R0"} |-> << <<0, 0>>, <<2, 0>>, <<-1, 0>>, <<2, 1>>, <<-1, -2>> >>]

SRS_KICK_TABLES == [JLSTZ |-> KICKS_JLSTZ, I |-> KICKS_I]

\* Tetromino.getKickTable; null is the empty table.
getKickTable(shape) ==
  IF shape = "I" THEN SRS_KICK_TABLES.I
  ELSE IF shape = "O" THEN << >>
  ELSE SRS_KICK_TABLES.JLSTZ

\* ------------------------------------------------------------------------
\* State: the fields of Grid and of its Stats
\* ------------------------------------------------------------------------
VARIABLES
  isCellColored,        \* cell index -> BOOLEAN
  cellColors,           \* cell index -> RGBA
  currentTetromino,     \* NoPiece (null) or the falling piece
  heldTetromino,        \* "null" or a shape
  canHold,
  shadowCells,          \* set of cell indices
  lockDelayStartTime,   \* << >> (null) or <<timestamp>>
  tetrominoBag,         \* sequence of shapes, popped from the end
  linesCleared,         \* stats.linesCleared
  score,                \* stats.score
  onUpdate,             \* stats.onUpdate: "null" or a listener
  notified,             \* the listener calls made by the last method of Stats
                        \* that ran: who was called, and what it could read
  registrations,        \* the arguments of the setUpdateCallback calls so far
  construction,         \* the last new Grid(w, h): its arguments and outcome
  now,                  \* the last value Date.now() returned
  commits,              \* number of commitTetromino calls that placed a piece
  settled,              \* applyEndGravity has moved a cell
  draws,                \* the shapes getRandomTetromino has returned, in order
  ticksOnly,            \* the player has stopped: only the interval timer of
                        \* the driver calls the playfield from now on
  url,                  \* WebSocketClient.url: "valid", or "invalid" when
                        \* new WebSocket(url) throws
  reconnectAttempts,    \* WebSocketClient.reconnectAttempts
  messageQueue,         \* WebSocketClient.messageQueue
  ws,                   \* WebSocketClient.ws: 0 (undefined) or a socket
  readyState,           \* socket -> "none" (not created) or its readyState
  timers,               \* the reconnect timers pending: delay and rank
  sent,                 \* the ws.send calls so far: socket and data
  triggered,            \* the trigger calls of the handler that ran last
  flush,                \* how the last onopen left its flush loop
  closeCalled,          \* close() has been called
  connectedAfterClose,  \* connect() has run since close() was called
  consecutive           \* reconnects scheduled since the last successful open

fields == <<isCellColored, cellColors, currentTetromino, heldTetromino, canHold,
            shadowCells, lockDelayStartTime, tetrominoBag, linesCleared, score,
            onUpdate>>

vars == <<isCellColored, cellColors, currentTetromino, heldTetromino, canHold,
          shadowCells, lockDelayStartTime, tetrominoBag, linesCleared, score,
          onUpdate, notified, registrations, construction, now, commits,
          settled, draws, ticksOnly, url, reconnectAttempts, messageQueue, ws,
          readyState, timers, sent, triggered, flush, closeCalled,
          connectedAfterClose, consecutive>>

Cells == 0..(totalCells - 1)

\* currentTetromino = null
NoPiece == [tetromino |-> "null", centerRow |-> 0, centerCol |-> 0,
            rotatedPositions |-> << >>, rotationState |-> "0"]

\* The Grid object as one record, so that the helpers can be composed.
Self ==
  [isCellColored |-> isCellColored, cellColors |-> cellColors,
   currentTetromino |-> currentTetromino, heldTetromino |-> heldTetromino,
   canHold |-> canHold, shadowCells |-> shadowCells,
   lockDelayStartTime |-> lockDelayStartTime, tetrominoBag |-> tetrominoBag,
   linesCleared |-> linesCleared, score |-> score, onUpdate |-> onUpdate,
   notified |-> notified, registrations |-> registrations,
   construction |-> construction, now |-> now, settled |-> settled,
   commits |-> commits, draws |-> draws]

Install(g) ==
  /\ isCellColored' = g.isCellColored
  /\ cellColors' = g.cellColors
  /\ currentTetromino' = g.currentTetromino
  /\ heldTetromino' = g.heldTetromino
  /\ canHold' = g.canHold
  /\ shadowCells' = g.shadowCells
  /\ lockDelayStartTime' = g.lockDelayStartTime
  /\ tetrominoBag' = g.tetrominoBag
  /\ linesCleared' = g.linesCleared
  /\ score' = g.score
  /\ onUpdate' = g.onUpdate
  /\ notified' = g.notified
  /\ registrations' = g.registrations
  /\ construction' = g.construction
  /\ now' = g.now
  /\ commits' = g.commits
  /\ settled' = g.settled
  /\ draws' = g.draws
  /\ UNCHANGED <<ticksOnly, url, reconnectAttempts, messageQueue, ws, readyState,
                 timers, sent, triggered, flush, closeCalled,
                 connectedAfterClose, consecutive>>

\* ------------------------------------------------------------------------
\* Construction
\* ------------------------------------------------------------------------
\* new Float32Array(length) and new Array(length) throw a RangeError for a
\* negative length.
ThrowsRangeError(length) == length < 0

\* Grid.constructor with a test of its arguments.
constructor_ChecksArguments(w, h) ==
  [width |-> w, height |-> h, topRow |-> h - 1, totalCells |-> w * h,
   outcome |-> IF w <= 0 \/ h <= 0 THEN "RangeError" ELSE "constructed"]

\* Grid.constructor as far as the dimensions go: the only statements that
\* can fail are the two allocations.
constructor(w, h) ==
  LET cells == w * h
  IN [width |-> w, height |-> h, topRow |-> h - 1, totalCells |-> cells,
      outcome |-> IF ThrowsRangeError(cells * 4) \/ ThrowsRangeError(cells)
                    THEN "RangeError"
                    ELSE "constructed"]

\* ------------------------------------------------------------------------
\* Helpers of Grid
\* ------------------------------------------------------------------------
getCellIndex(row, col) == row * width + col

\* Mutant of isValidPosition: the occupancy of the cell is not looked at.
isValidPosition_IgnoresOccupancy(g, row, col) ==
  ~(col < 0 \/ col >= width \/ row < 0 \/ row >= height)

\* isValidPosition testing the cell index, not the row and the column,
\* against the grid.
isValidPosition_ChecksIndexOnly(g, row, col) ==
  IF getCellIndex(row, col) < 0 \/ getCellIndex(row, col) >= totalCells
    THEN FALSE
    ELSE ~g.isCellColored[getCellIndex(row, col)]

\* The indices at which isValidPosition(row, col) reads isCellColored.
IndicesReadByIsValidPosition(row, col) ==
  IF col < 0 \/ col >= width \/ row < 0 \/ row >= height
    THEN {}
    ELSE {getCellIndex(row, col)}

isValidPosition(g, row, col) ==
  IF col < 0 \/ col >= width \/ row < 0 \/ row >= height
    THEN FALSE
    ELSE ~g.isCellColored[getCellIndex(row, col)]

getTetrominoPositions(t) ==
  LET relativePositions ==
        IF t.rotatedPositions # << >> THEN t.rotatedPositions
        ELSE CELL_POSITIONS[t.tetromino]
  IN [i \in 1..4 |-> <<t.centerRow + relativePositions[i][1],
                       t.centerCol + relativePositions[i][2]>>]

canPlaceTetromino(g, t) ==
  LET newPosition == getTetrominoPositions(t)
  IN \A i \in 1..4 : isValidPosition(g, newPosition[i][1], newPosition[i][2])

\* The cell indices of a piece whose cells are all inside the grid.
PieceCells(t) ==
  LET p == getTetrominoPositions(t)
  IN {getCellIndex(p[i][1], p[i][2]) : i \in 1..4}

placeTetromino(g, t) ==
  LET cells == PieceCells(t)
  IN [g EXCEPT
        !.cellColors = [c \in Cells |-> IF c \in cells THEN COLORS[t.tetromino]
                                        ELSE g.cellColors[c]],
        !.isCellColored = [c \in Cells |-> IF c \in cells THEN TRUE
                                           ELSE g.isCellColored[c]]]

\* ------------------------------------------------------------------------
\* Stats
\* ------------------------------------------------------------------------
getLevel(lines) == 1 + (lines \div 10)

calculateBasePoints(count) ==
  CASE count = 1 -> SCORE_SINGLE
    [] count = 2 -> SCORE_DOUBLE
    [] count = 3 -> SCORE_TRIPLE
    [] count = 4 -> SCORE_TETRIS
    [] OTHER -> count * 200

calculatePoints(lines, count) == calculateBasePoints(count) * getLevel(lines)

\* this.onUpdate() if a listener is set: the listener is recorded with the
\* totals it can read when it runs.
CallOnUpdate(g) ==
  IF g.onUpdate # "null"
    THEN <<[callback |-> g.onUpdate, linesCleared |-> g.linesCleared,
            score |-> g.score]>>
    ELSE << >>

\* Stats.reset
reset(g) ==
  LET g1 == [g EXCEPT !.linesCleared = 0, !.score = 0]
  IN [g1 EXCEPT !.notified = CallOnUpdate(g1)]

setUpdateCallback(g, callback) ==
  [g EXCEPT !.onUpdate = callback, !.notified = << >>,
            !.registrations = Append(@, callback)]

\* addLinesCleared taking the level after the lines have been added.
addLinesCleared_LevelAfterAdding(g, count) ==
  IF count <= 0 THEN [g EXCEPT !.notified = << >>]
  ELSE LET g1 == [g EXCEPT
                    !.linesCleared = g.linesCleared + count,
                    !.score = g.score + calculatePoints(g.linesCleared + count, count)]
       IN [g1 EXCEPT !.notified = CallOnUpdate(g1)]

\* addLinesCleared calling the listener before it adds the lines.
addLinesCleared_NotifiesFirst(g, count) ==
  IF count <= 0 THEN [g EXCEPT !.notified = << >>]
  ELSE LET pointsEarned == calculatePoints(g.linesCleared, count)
       IN [g EXCEPT !.linesCleared = g.linesCleared + count,
                    !.score = g.score + pointsEarned,
                    !.notified = CallOnUpdate(g)]

\* addLinesCleared without the test of count.
addLinesCleared_NoGuard(g, count) ==
  LET pointsEarned == calculatePoints(g.linesCleared, count)
      g1 == [g EXCEPT !.linesCleared = g.linesCleared + count,
                      !.score = g.score + pointsEarned]
  IN [g1 EXCEPT !.notified = CallOnUpdate(g1)]

addLinesCleared(g, count) ==
  IF count <= 0 THEN [g EXCEPT !.notified = << >>]
  ELSE LET pointsEarned == calculatePoints(g.linesCleared, count)
           g1 == [g EXCEPT !.linesCleared = g.linesCleared + count,
                           !.score = g.score + pointsEarned]
       IN [g1 EXCEPT !.notified = CallOnUpdate(g1)]

\* ------------------------------------------------------------------------
\* Rows
\* ------------------------------------------------------------------------
getColoredCellCountInRow(g, row) ==
  Cardinality({col \in 0..(width - 1) : g.isCellColored[getCellIndex(row, col)]})

setCellGray(g, cellIndex) ==
  [g EXCEPT !.cellColors[cellIndex] = GRAY, !.isCellColored[cellIndex] = FALSE]

copyCellColor(g, fromIndex, toIndex) ==
  [g EXCEPT !.cellColors[toIndex] = g.cellColors[fromIndex],
            !.isCellColored[toIndex] = g.isCellColored[fromIndex]]

copyRow(g, sourceRow, targetRow) ==
  IF sourceRow = targetRow THEN g
  ELSE LET inTarget(c) == c \div width = targetRow
           source(c) == sourceRow * width + (c % width)
       IN [g EXCEPT
             !.isCellColored = [c \in Cells |-> IF inTarget(c)
                                                  THEN g.isCellColored[source(c)]
                                                  ELSE g.isCellColored[c]],
             !.cellColors = [c \in Cells |-> IF inTarget(c)
                                               THEN g.cellColors[source(c)]
                                               ELSE g.cellColors[c]]]

clearRows(g, startRow, endRow) ==
  LET hit(c) == c \div width >= startRow /\ c \div width <= endRow
  IN [g EXCEPT
        !.isCellColored = [c \in Cells |-> IF hit(c) THEN FALSE
                                           ELSE g.isCellColored[c]],
        !.cellColors = [c \in Cells |-> IF hit(c) THEN GRAY ELSE g.cellColors[c]]]

\* The for loop of clearCompletedRows, from readRow on.
RECURSIVE ClearScan(_, _, _, _)
ClearScan(g, readRow, writeRow, clearedCount) ==
  IF readRow >= height
    THEN [g |-> g, readRow |-> readRow, writeRow |-> writeRow,
          clearedCount |-> clearedCount]
  ELSE LET coloredCellCount == getColoredCellCountInRow(g, readRow)
       IN IF coloredCellCount = 0
            THEN [g |-> g, readRow |-> readRow, writeRow |-> writeRow,
                  clearedCount |-> clearedCount]
          ELSE IF coloredCellCount = width
            THEN ClearScan(g, readRow + 1, writeRow, clearedCount + 1)
          ELSE ClearScan(copyRow(g, readRow, writeRow), readRow + 1,
                         writeRow + 1, clearedCount)

\* clearCompletedRows resetting the rows from the read cursor on, so that the
\* rows between the two cursors keep what they held.
clearCompletedRows_ClearsFromReadRow(g) ==
  LET s == ClearScan(g, 0, 0, 0)
      endRow == IF s.readRow < height - 1 THEN s.readRow ELSE height - 1
  IN addLinesCleared(clearRows(s.g, s.readRow, endRow), s.clearedCount)

\* clearCompletedRows without the report to the score tracker.
clearCompletedRows_ReportsNothing(g) ==
  LET s == ClearScan(g, 0, 0, 0)
      endRow == IF s.readRow < height - 1 THEN s.readRow ELSE height - 1
  IN clearRows(s.g, s.writeRow, endRow)

clearCompletedRows(g) ==
  LET s == ClearScan(g, 0, 0, 0)
      endRow == IF s.readRow < height - 1 THEN s.readRow ELSE height - 1
  IN addLinesCleared(clearRows(s.g, s.writeRow, endRow), s.clearedCount)

\* The two nested loops of applyEndGravity, from cell index cellIdx on
\* (row-major order, starting at row 1).
RECURSIVE EndGravityFrom(_, _)
EndGravityFrom(g, cellIdx) ==
  IF cellIdx >= totalCells THEN g
  ELSE IF ~g.isCellColored[cellIdx] THEN EndGravityFrom(g, cellIdx + 1)
  ELSE IF g.isCellColored[cellIdx - width] THEN EndGravityFrom(g, cellIdx + 1)
  ELSE EndGravityFrom(setCellGray(copyCellColor(g, cellIdx, cellIdx - width),
                                  cellIdx),
                      cellIdx + 1)

\* Mutant of applyEndGravity: the passes are repeated until no cell moves, so
\* a cell falls as far as it can in one call.
RECURSIVE applyEndGravity_DropsToFloor(_)
applyEndGravity_DropsToFloor(g) ==
  LET g1 == EndGravityFrom(g, width)
  IN IF g1.isCellColored = g.isCellColored
       THEN g
       ELSE [applyEndGravity_DropsToFloor(g1) EXCEPT !.settled = TRUE]

applyEndGravity(g) ==
  LET g1 == EndGravityFrom(g, width)
  IN [g1 EXCEPT !.settled = @ \/ g1.isCellColored # g.isCellColored]

\* ------------------------------------------------------------------------
\* The bag
\* ------------------------------------------------------------------------
Swap(s, a, b) == [s EXCEPT ![a] = s[b], ![b] = s[a]]

\* Math.floor(Math.random() * (i + 1)) when Math.random() returns r/1000.
RandomIndex(r, i) == (r * (i + 1)) \div 1000

\* What the six calls of Math.random() in one refillBag give: js[i] is the
\* index j drawn at loop index i.
RandomStreams ==
  {[i \in 1..(Len(SHAPE_KEYS) - 1) |-> RandomIndex(r, i)] : r \in RandomValues}

\* The shuffle loop copying bag[j] to bag[i] without storing bag[i] at j.
RECURSIVE FisherYates_Overwrites(_, _, _)
FisherYates_Overwrites(bag, i, js) ==
  IF i <= 0 THEN bag
  ELSE FisherYates_Overwrites([bag EXCEPT ![i + 1] = bag[js[i] + 1]], i - 1, js)

\* The Fisher-Yates loop from index i down to 1 (0-based, as in the code).
RECURSIVE FisherYates(_, _, _)
FisherYates(bag, i, js) ==
  IF i <= 0 THEN bag
  ELSE FisherYates(Swap(bag, i + 1, js[i] + 1), i - 1, js)

\* The bags refillBag can leave behind.
refillBag ==
  {FisherYates(SHAPE_KEYS, Len(SHAPE_KEYS) - 1, js) : js \in RandomStreams}

\* getRandomTetromino shuffling a new bag for every draw.
getRandomTetromino_ShufflesEveryDraw(g) ==
  {[g |-> [g EXCEPT !.tetrominoBag = SubSeq(b, 1, Len(b) - 1),
                    !.draws = Append(@, b[Len(b)])],
    ret |-> b[Len(b)]] : b \in refillBag}

\* getRandomTetromino: g is the playfield after the call, ret the shape
\* returned (one outcome per bag a refill can leave).
getRandomTetromino(g) ==
  LET bags == IF Len(g.tetrominoBag) = 0 THEN refillBag ELSE {g.tetrominoBag}
  IN {[g |-> [g EXCEPT !.tetrominoBag = SubSeq(b, 1, Len(b) - 1),
                       !.draws = Append(@, b[Len(b)])],
       ret |-> b[Len(b)]] : b \in bags}

\* ------------------------------------------------------------------------
\* Ghost (shadow)
\* ------------------------------------------------------------------------
\* The descent stopping one row down, and only where the piece does not yet
\* rest.
DropRow_StopsInMidAir(g, t, newCenterRow) ==
  IF /\ canPlaceTetromino(g, [t EXCEPT !.centerRow = newCenterRow - 1])
     /\ canPlaceTetromino(g, [t EXCEPT !.centerRow = newCenterRow - 2])
    THEN newCenterRow - 1
    ELSE newCenterRow

\* The while loop shared by getHardDropPosition and hardDrop.
RECURSIVE DropRow(_, _, _)
DropRow(g, t, newCenterRow) ==
  IF canPlaceTetromino(g, [t EXCEPT !.centerRow = newCenterRow - 1])
    THEN DropRow(g, t, newCenterRow - 1)
    ELSE newCenterRow

\* getHardDropPosition with the loop run at most once.
getHardDropPosition_OneRowOnly(g) ==
  [g.currentTetromino EXCEPT
     !.centerRow =
        IF canPlaceTetromino(g, [g.currentTetromino EXCEPT !.centerRow = @ - 1])
          THEN g.currentTetromino.centerRow - 1
          ELSE g.currentTetromino.centerRow]

getHardDropPosition(g) ==
  [g.currentTetromino EXCEPT
     !.centerRow = DropRow(g, g.currentTetromino, g.currentTetromino.centerRow)]

clearShadow(g) == [g EXCEPT !.shadowCells = {}]

\* updateShadow taking the cells of the piece itself for the ghost.
updateShadow_ShowsPiece(g) ==
  IF g.currentTetromino = NoPiece THEN clearShadow(g)
  ELSE [g EXCEPT !.shadowCells = PieceCells(g.currentTetromino)]

updateShadow(g) ==
  IF g.currentTetromino = NoPiece THEN clearShadow(g)
  ELSE LET hardDropPos == getHardDropPosition(g)
       IN IF /\ hardDropPos.centerRow = g.currentTetromino.centerRow
             /\ hardDropPos.centerCol = g.currentTetromino.centerCol
            THEN clearShadow(g)
            ELSE [g EXCEPT !.shadowCells = PieceCells(hardDropPos)]

\* ------------------------------------------------------------------------
\* Spawn, commit, gravity, hold
\* ------------------------------------------------------------------------
SpawnPiece(shape) ==
  [tetromino |-> shape, centerRow |-> topRow, centerCol |-> width \div 2,
   rotatedPositions |-> << >>, rotationState |-> "0"]

\* spawnTetromino that leaves the hold guard as it finds it.
spawnTetromino_KeepsGuard(g) ==
  IF g.currentTetromino # NoPiece THEN {g}
  ELSE {LET g1 == d.g
            t == SpawnPiece(d.ret)
        IN IF ~canPlaceTetromino(g1, t) THEN g1
           ELSE updateShadow([g1 EXCEPT !.currentTetromino = t,
                                        !.lockDelayStartTime = << >>])
        : d \in getRandomTetromino(g)}

\* spawnTetromino without the test of the spawn cells.
spawnTetromino_SkipsFitTest(g) ==
  IF g.currentTetromino # NoPiece THEN {g}
  ELSE {updateShadow([d.g EXCEPT !.currentTetromino = SpawnPiece(d.ret),
                                 !.lockDelayStartTime = << >>,
                                 !.canHold = TRUE])
        : d \in getRandomTetromino(g)}

\* The states spawnTetromino can leave (one per outcome of the bag).
spawnTetromino(g) ==
  IF g.currentTetromino # NoPiece THEN {g}
  ELSE {LET g1 == d.g
            t == SpawnPiece(d.ret)
        IN IF ~canPlaceTetromino(g1, t) THEN g1
           ELSE updateShadow([g1 EXCEPT !.currentTetromino = t,
                                        !.lockDelayStartTime = << >>,
                                        !.canHold = TRUE])
        : d \in getRandomTetromino(g)}

\* commitTetromino clearing the completed rows before it writes the piece.
commitTetromino_ClearsRowsFirst(g) ==
  IF g.currentTetromino = NoPiece THEN {g}
  ELSE spawnTetromino(
         [clearShadow(placeTetromino(clearCompletedRows(g), g.currentTetromino))
            EXCEPT !.currentTetromino = NoPiece,
                   !.lockDelayStartTime = << >>,
                   !.commits = g.commits + 1])

\* Mutant of commitTetromino: the completed rows are left in the grid.
commitTetromino_KeepsFullRows(g) ==
  IF g.currentTetromino = NoPiece THEN {g}
  ELSE spawnTetromino(
         [clearShadow(placeTetromino(g, g.currentTetromino)) EXCEPT
            !.currentTetromino = NoPiece,
            !.lockDelayStartTime = << >>,
            !.commits = g.commits + 1])

\* The playfield after each statement is bound as a value, so that it is
\* computed once.
commitTetromino(g) ==
  IF g.currentTetromino = NoPiece THEN {g}
  ELSE UNION {spawnTetromino(cleared) :
         cleared \in {clearCompletedRows(placed) : placed \in
           {[clearShadow(placeTetromino(g, g.currentTetromino)) EXCEPT
              !.currentTetromino = NoPiece,
              !.lockDelayStartTime = << >>,
              !.commits = g.commits + 1]}}}

\* Mutant of applyGravity: the piece is committed only once the timer has
\* run for more than lockDelayMs.
applyGravity_StrictDelay(g, currentTime) ==
  IF g.currentTetromino = NoPiece THEN {applyEndGravity(g)}
  ELSE LET newCenterRow == g.currentTetromino.centerRow - 1
       IN IF canPlaceTetromino(g, [g.currentTetromino EXCEPT
                                     !.centerRow = newCenterRow])
            THEN {updateShadow([g EXCEPT !.lockDelayStartTime = << >>,
                                         !.currentTetromino.centerRow = newCenterRow])}
          ELSE IF g.lockDelayStartTime = << >>
            THEN {[g EXCEPT !.now = currentTime,
                            !.lockDelayStartTime = <<currentTime>>]}
          ELSE LET elapsedTime == currentTime - g.lockDelayStartTime[1]
               IN IF elapsedTime > lockDelayMs
                    THEN commitTetromino([g EXCEPT !.now = currentTime])
                    ELSE {[g EXCEPT !.now = currentTime]}

\* applyGravity that lets the stack settle on every tick, piece or not.
applyGravity_SettlesStack(g, currentTime) ==
  LET g0 == applyEndGravity(g)
  IN IF g.currentTetromino = NoPiece THEN {g0}
     ELSE LET newCenterRow == g0.currentTetromino.centerRow - 1
          IN IF canPlaceTetromino(g0, [g0.currentTetromino EXCEPT
                                         !.centerRow = newCenterRow])
               THEN {updateShadow([g0 EXCEPT !.lockDelayStartTime = << >>,
                                             !.currentTetromino.centerRow = newCenterRow])}
             ELSE IF g0.lockDelayStartTime = << >>
               THEN {[g0 EXCEPT !.now = currentTime,
                                !.lockDelayStartTime = <<currentTime>>]}
             ELSE LET elapsedTime == currentTime - g0.lockDelayStartTime[1]
                  IN IF elapsedTime >= lockDelayMs
                       THEN commitTetromino([g0 EXCEPT !.now = currentTime])
                       ELSE {[g0 EXCEPT !.now = currentTime]}

\* Mutant of applyGravity: a tick without a piece settles the stack and then
\* tries to spawn.
applyGravity_SpawnsWhenIdle(g, currentTime) ==
  IF g.currentTetromino = NoPiece THEN spawnTetromino(applyEndGravity(g))
  ELSE LET newCenterRow == g.currentTetromino.centerRow - 1
       IN IF canPlaceTetromino(g, [g.currentTetromino EXCEPT
                                     !.centerRow = newCenterRow])
            THEN {updateShadow([g EXCEPT !.lockDelayStartTime = << >>,
                                         !.currentTetromino.centerRow = newCenterRow])}
          ELSE IF g.lockDelayStartTime = << >>
            THEN {[g EXCEPT !.now = currentTime,
                            !.lockDelayStartTime = <<currentTime>>]}
          ELSE LET elapsedTime == currentTime - g.lockDelayStartTime[1]
               IN IF elapsedTime >= lockDelayMs
                    THEN commitTetromino([g EXCEPT !.now = currentTime])
                    ELSE {[g EXCEPT !.now = currentTime]}

\* Mutant of applyGravity: a tick that finds the delay not over restarts the
\* timer.
applyGravity_RestartsTimer(g, currentTime) ==
  IF g.currentTetromino = NoPiece THEN {applyEndGravity(g)}
  ELSE LET newCenterRow == g.currentTetromino.centerRow - 1
       IN IF canPlaceTetromino(g, [g.currentTetromino EXCEPT
                                     !.centerRow = newCenterRow])
            THEN {updateShadow([g EXCEPT !.lockDelayStartTime = << >>,
                                         !.currentTetromino.centerRow = newCenterRow])}
          ELSE IF g.lockDelayStartTime = << >>
            THEN {[g EXCEPT !.now = currentTime,
                            !.lockDelayStartTime = <<currentTime>>]}
          ELSE LET elapsedTime == currentTime - g.lockDelayStartTime[1]
               IN IF elapsedTime >= lockDelayMs
                    THEN commitTetromino([g EXCEPT !.now = currentTime])
                    ELSE {[g EXCEPT !.now = currentTime,
                                    !.lockDelayStartTime = <<currentTime>>]}

\* currentTime is what Date.now() returns if applyGravity reads the clock.
applyGravity(g, currentTime) ==
  IF g.currentTetromino = NoPiece THEN {applyEndGravity(g)}
  ELSE LET newCenterRow == g.currentTetromino.centerRow - 1
       IN IF canPlaceTetromino(g, [g.currentTetromino EXCEPT
                                     !.centerRow = newCenterRow])
            THEN {updateShadow([g EXCEPT !.lockDelayStartTime = << >>,
                                         !.currentTetromino.centerRow = newCenterRow])}
          ELSE IF g.lockDelayStartTime = << >>
            THEN {[g EXCEPT !.now = currentTime,
                            !.lockDelayStartTime = <<currentTime>>]}
          ELSE LET elapsedTime == currentTime - g.lockDelayStartTime[1]
               IN IF elapsedTime >= lockDelayMs
                    THEN commitTetromino([g EXCEPT !.now = currentTime])
                    ELSE {[g EXCEPT !.now = currentTime]}

update(g, currentTime) == applyGravity(g, currentTime)

\* Mutant of holdTetromino: the hold guard is not set after a hold.
holdTetromino_KeepsGuard(g) ==
  IF g.currentTetromino = NoPiece \/ ~g.canHold
    THEN {[g |-> g, ret |-> "false"]}
  ELSE LET g1 == clearShadow(g)
           tempTetromino == g.currentTetromino.tetromino
       IN IF g.heldTetromino # "null"
            THEN IF ~canPlaceTetromino(g1, SpawnPiece(g.heldTetromino))
                   THEN {[g |-> g1, ret |-> "false"]}
                   ELSE {[g |-> [updateShadow(
                                   [g1 EXCEPT
                                      !.currentTetromino = SpawnPiece(g.heldTetromino),
                                      !.lockDelayStartTime = << >>])
                                 EXCEPT !.heldTetromino = tempTetromino],
                          ret |-> "true"]}
          ELSE {[g |-> [s EXCEPT !.heldTetromino = tempTetromino],
                 ret |-> "true"]
                : s \in spawnTetromino([g1 EXCEPT !.currentTetromino = NoPiece])}

\* Mutant of holdTetromino: the swap leaves the lock timer running.
holdTetromino_KeepsTimer(g) ==
  IF g.currentTetromino = NoPiece \/ ~g.canHold
    THEN {[g |-> g, ret |-> "false"]}
  ELSE LET g1 == clearShadow(g)
           tempTetromino == g.currentTetromino.tetromino
       IN IF g.heldTetromino # "null"
            THEN IF ~canPlaceTetromino(g1, SpawnPiece(g.heldTetromino))
                   THEN {[g |-> g1, ret |-> "false"]}
                   ELSE {[g |-> [updateShadow(
                                   [g1 EXCEPT
                                      !.currentTetromino = SpawnPiece(g.heldTetromino)])
                                 EXCEPT !.heldTetromino = tempTetromino,
                                        !.canHold = FALSE],
                          ret |-> "true"]}
          ELSE {[g |-> [s EXCEPT !.heldTetromino = tempTetromino,
                                 !.canHold = FALSE],
                 ret |-> "true"]
                : s \in spawnTetromino([g1 EXCEPT !.currentTetromino = NoPiece])}

\* The (state, return value) pairs holdTetromino can produce.
holdTetromino(g) ==
  IF g.currentTetromino = NoPiece \/ ~g.canHold
    THEN {[g |-> g, ret |-> "false"]}
  ELSE LET g1 == clearShadow(g)
           tempTetromino == g.currentTetromino.tetromino
       IN IF g.heldTetromino # "null"
            THEN IF ~canPlaceTetromino(g1, SpawnPiece(g.heldTetromino))
                   THEN {[g |-> g1, ret |-> "false"]}
                   ELSE {[g |-> [updateShadow(
                                   [g1 EXCEPT
                                      !.currentTetromino = SpawnPiece(g.heldTetromino),
                                      !.lockDelayStartTime = << >>])
                                 EXCEPT !.heldTetromino = tempTetromino,
                                        !.canHold = FALSE],
                          ret |-> "true"]}
          ELSE {[g |-> [s EXCEPT !.heldTetromino = tempTetromino,
                                 !.canHold = FALSE],
                 ret |-> "true"]
                : s \in spawnTetromino([g1 EXCEPT !.currentTetromino = NoPiece])}

\* ------------------------------------------------------------------------
\* Moves and rotation
\* ------------------------------------------------------------------------
\* Mutant of moveTetromino: the lock timer is cleared before the candidate
\* position is validated.
moveTetromino_ClearsTimerFirst(g, direction) ==
  IF g.currentTetromino = NoPiece THEN [g |-> g, ret |-> "false"]
  ELSE LET newCenterCol == g.currentTetromino.centerCol + direction
           g1 == [g EXCEPT !.lockDelayStartTime = << >>]
       IN IF ~canPlaceTetromino(g, [g.currentTetromino EXCEPT
                                      !.centerCol = newCenterCol])
            THEN [g |-> g1, ret |-> "false"]
            ELSE [g |-> updateShadow([g1 EXCEPT
                                        !.currentTetromino.centerCol = newCenterCol]),
                  ret |-> "true"]

\* Mutant of moveTetromino: a successful move leaves the lock timer running.
moveTetromino_KeepsTimer(g, direction) ==
  IF g.currentTetromino = NoPiece THEN [g |-> g, ret |-> "false"]
  ELSE LET newCenterCol == g.currentTetromino.centerCol + direction
       IN IF ~canPlaceTetromino(g, [g.currentTetromino EXCEPT
                                      !.centerCol = newCenterCol])
            THEN [g |-> g, ret |-> "false"]
            ELSE [g |-> updateShadow([g EXCEPT
                                        !.currentTetromino.centerCol = newCenterCol]),
                  ret |-> "true"]

\* moveTetromino leaving the ghost where it was.
moveTetromino_KeepsGhost(g, direction) ==
  IF g.currentTetromino = NoPiece THEN [g |-> g, ret |-> "false"]
  ELSE LET newCenterCol == g.currentTetromino.centerCol + direction
       IN IF ~canPlaceTetromino(g, [g.currentTetromino EXCEPT
                                      !.centerCol = newCenterCol])
            THEN [g |-> g, ret |-> "false"]
            ELSE [g |-> [g EXCEPT !.lockDelayStartTime = << >>,
                                  !.currentTetromino.centerCol = newCenterCol],
                  ret |-> "true"]

moveTetromino(g, direction) ==
  IF g.currentTetromino = NoPiece THEN [g |-> g, ret |-> "false"]
  ELSE LET newCenterCol == g.currentTetromino.centerCol + direction
       IN IF ~canPlaceTetromino(g, [g.currentTetromino EXCEPT
                                      !.centerCol = newCenterCol])
            THEN [g |-> g, ret |-> "false"]
            ELSE [g |-> updateShadow([g EXCEPT
                                        !.lockDelayStartTime = << >>,
                                        !.currentTetromino.centerCol = newCenterCol]),
                  ret |-> "true"]

softDrop(g) ==
  IF g.currentTetromino = NoPiece THEN [g |-> g, ret |-> "false"]
  ELSE LET newCenterRow == g.currentTetromino.centerRow - 1
       IN IF ~canPlaceTetromino(g, [g.currentTetromino EXCEPT
                                      !.centerRow = newCenterRow])
            THEN [g |-> g, ret |-> "false"]
            ELSE [g |-> [g EXCEPT !.lockDelayStartTime = << >>,
                                  !.currentTetromino.centerRow = newCenterRow],
                  ret |-> "true"]

moveLeft(g) == moveTetromino(g, -1)

moveRight(g) == moveTetromino(g, 1)

moveDown(g) == softDrop(g)

\* STATE_ORDER.indexOf, 0-based.
IndexOfState(state) == (CHOOSE i \in 1..4 : STATE_ORDER[i] = state) - 1

\* getRotationTransition with the cycle one state short.
getRotationTransition_ShortCycle(fromState, clockwise) ==
  LET currentIndex == IndexOfState(fromState)
  IN IF clockwise THEN STATE_ORDER[((currentIndex + 1) % 3) + 1]
     ELSE STATE_ORDER[((currentIndex - 1 + 3) % 3) + 1]

getRotationTransition(fromState, clockwise) ==
  LET currentIndex == IndexOfState(fromState)
  IN IF clockwise THEN STATE_ORDER[((currentIndex + 1) % 4) + 1]
     ELSE STATE_ORDER[((currentIndex - 1 + 4) % 4) + 1]

rotateRelativePosition(relativePositions, clockwise) ==
  IF clockwise
    THEN [i \in 1..Len(relativePositions) |->
            <<relativePositions[i][2], -relativePositions[i][1]>>]
    ELSE [i \in 1..Len(relativePositions) |->
            <<-relativePositions[i][2], relativePositions[i][1]>>]

\* The loop over kickOffsets applying the rotation without moving the centre
\* by the accepted offset.
RECURSIVE TryKicks_KeepsCentre(_, _, _, _, _)
TryKicks_KeepsCentre(g, kickOffsets, k, rotatedPositions, nextState) ==
  IF k > Len(kickOffsets) THEN [g |-> g, ret |-> "false"]
  ELSE LET testState == [g.currentTetromino EXCEPT
                           !.centerRow = @ + kickOffsets[k][1],
                           !.centerCol = @ + kickOffsets[k][2],
                           !.rotatedPositions = rotatedPositions]
       IN IF canPlaceTetromino(g, testState)
            THEN [g |-> updateShadow(
                          [g EXCEPT !.lockDelayStartTime = << >>,
                                    !.currentTetromino.rotatedPositions = rotatedPositions,
                                    !.currentTetromino.rotationState = nextState]),
                  ret |-> "true"]
            ELSE TryKicks_KeepsCentre(g, kickOffsets, k + 1, rotatedPositions,
                                      nextState)

\* The for loop over kickOffsets, from the k-th candidate on.
RECURSIVE TryKicks(_, _, _, _, _)
TryKicks(g, kickOffsets, k, rotatedPositions, nextState) ==
  IF k > Len(kickOffsets) THEN [g |-> g, ret |-> "false"]
  ELSE LET newCenterRow == g.currentTetromino.centerRow + kickOffsets[k][1]
           newCenterCol == g.currentTetromino.centerCol + kickOffsets[k][2]
           testState == [g.currentTetromino EXCEPT
                           !.centerRow = newCenterRow,
                           !.centerCol = newCenterCol,
                           !.rotatedPositions = rotatedPositions]
       IN IF canPlaceTetromino(g, testState)
            THEN [g |-> updateShadow(
                          [g EXCEPT !.lockDelayStartTime = << >>,
                                    !.currentTetromino =
                                       [testState EXCEPT !.rotationState = nextState]]),
                  ret |-> "true"]
            ELSE TryKicks(g, kickOffsets, k + 1, rotatedPositions, nextState)

\* rotate without the test for the O shape, which is then kicked like
\* J, L, S, T and Z.
rotate_KicksEveryShape(g, clockwise) ==
  IF g.currentTetromino = NoPiece THEN [g |-> g, ret |-> "false"]
  ELSE LET tetromino == g.currentTetromino.tetromino
           kickTable == IF tetromino = "I" THEN SRS_KICK_TABLES.I
                        ELSE SRS_KICK_TABLES.JLSTZ
           currentState == g.currentTetromino.rotationState
           nextState == getRotationTransition(currentState, clockwise)
           transitionKey == currentState \o nextState
           currentPositions ==
             IF g.currentTetromino.rotatedPositions # << >>
               THEN g.currentTetromino.rotatedPositions
               ELSE CELL_POSITIONS[tetromino]
           rotatedPositions == rotateRelativePosition(currentPositions, clockwise)
       IN IF transitionKey \notin DOMAIN kickTable
            THEN [g |-> g, ret |-> "false"]
            ELSE TryKicks(g, kickTable[transitionKey], 1, rotatedPositions, nextState)

rotate(g, clockwise) ==
  IF g.currentTetromino = NoPiece THEN [g |-> g, ret |-> "false"]
  ELSE IF g.currentTetromino.tetromino = "O" THEN [g |-> g, ret |-> "false"]
  ELSE LET tetromino == g.currentTetromino.tetromino
           kickTable == getKickTable(tetromino)
           currentState == g.currentTetromino.rotationState
           nextState == getRotationTransition(currentState, clockwise)
           transitionKey == currentState \o nextState
           currentPositions ==
             IF g.currentTetromino.rotatedPositions # << >>
               THEN g.currentTetromino.rotatedPositions
               ELSE CELL_POSITIONS[tetromino]
           rotatedPositions == rotateRelativePosition(currentPositions, clockwise)
       IN IF transitionKey \notin DOMAIN kickTable
            THEN [g |-> g, ret |-> "false"]
            ELSE TryKicks(g, kickTable[transitionKey], 1, rotatedPositions, nextState)

rotateClockwise(g) == rotate(g, TRUE)

rotateCounterClockwise(g) == rotate(g, FALSE)

\* Mutant of hardDrop: the piece is committed where it is.
hardDrop_CommitsInPlace(g) ==
  IF g.currentTetromino = NoPiece THEN {[g |-> g, ret |-> "false"]}
  ELSE {[g |-> s, ret |-> "true"] : s \in commitTetromino(clearShadow(g))}

hardDrop(g) ==
  IF g.currentTetromino = NoPiece THEN {[g |-> g, ret |-> "false"]}
  ELSE LET centerRow == g.currentTetromino.centerRow
           newCenterRow == DropRow(g, g.currentTetromino, centerRow)
           g1 == IF newCenterRow # centerRow
                   THEN [g EXCEPT !.currentTetromino.centerRow = newCenterRow]
                   ELSE g
       IN {[g |-> s, ret |-> "true"] : s \in commitTetromino(clearShadow(g1))}

\* ------------------------------------------------------------------------
\* WebSocketClient
\* ------------------------------------------------------------------------
\* options.reconnectInterval and options.maxReconnectAttempts
reconnectInterval == 1000

maxReconnectAttempts == 5

\* What send is called with: the string and the object of the usage example,
\* and an object that refers to itself.
Messages ==
  {[typeof |-> "string", value |-> "test", cyclic |-> FALSE],
   [typeof |-> "object", value |-> "hello", cyclic |-> FALSE],
   [typeof |-> "object", value |-> "self", cyclic |-> TRUE]}

Sockets == 1..MaxSockets

\* CloseEvent.code: normal closure, going away, abnormal closure.
CloseCodes == {1000, 1001, 1006}

\* The client and the platform objects it holds, as one record.
Client ==
  [url |-> url,
   reconnectAttempts |-> reconnectAttempts, messageQueue |-> messageQueue,
   ws |-> ws, readyState |-> readyState, timers |-> timers, sent |-> sent,
   triggered |-> triggered, flush |-> flush, closeCalled |-> closeCalled,
   connectedAfterClose |-> connectedAfterClose,
   consecutive |-> consecutive]

\* No client has been constructed.
NoClient ==
  [url |-> "none", reconnectAttempts |-> 0, messageQueue |-> << >>, ws |-> 0,
   readyState |-> [socket \in Sockets |-> "none"], timers |-> << >>,
   sent |-> << >>, triggered |-> << >>, flush |-> "none",
   closeCalled |-> FALSE, connectedAfterClose |-> FALSE,
   consecutive |-> 0]

ClientIs(c) ==
  /\ url = c.url
  /\ reconnectAttempts = c.reconnectAttempts
  /\ messageQueue = c.messageQueue
  /\ ws = c.ws
  /\ readyState = c.readyState
  /\ timers = c.timers
  /\ sent = c.sent
  /\ triggered = c.triggered
  /\ flush = c.flush
  /\ closeCalled = c.closeCalled
  /\ connectedAfterClose = c.connectedAfterClose
  /\ consecutive = c.consecutive

InstallClient(c) ==
  /\ url' = c.url
  /\ reconnectAttempts' = c.reconnectAttempts
  /\ messageQueue' = c.messageQueue
  /\ ws' = c.ws
  /\ readyState' = c.readyState
  /\ timers' = c.timers
  /\ sent' = c.sent
  /\ triggered' = c.triggered
  /\ flush' = c.flush
  /\ closeCalled' = c.closeCalled
  /\ connectedAfterClose' = c.connectedAfterClose
  /\ consecutive' = c.consecutive
  /\ UNCHANGED <<isCellColored, cellColors, currentTetromino, heldTetromino,
                 canHold, shadowCells, lockDelayStartTime, tetrominoBag,
                 linesCleared, score, onUpdate, notified, registrations,
                 construction, now, commits, settled, draws, ticksOnly>>

\* trigger(event): the handlers registered for the event are called; what
\* they find is the length of the queue and the number of ws.send calls made.
trigger(c, event) ==
  [c EXCEPT !.triggered = Append(@, [event |-> event,
                                     queued |-> Len(c.messageQueue),
                                     sent |-> Len(c.sent)])]

\* JSON.stringify(message) for an object, the message itself otherwise;
\* JSON.stringify throws a TypeError for an object that refers to itself.
Data(message) ==
  IF message.typeof = "object"
    THEN IF message.cyclic THEN "TypeError" ELSE <<"JSON", message.value>>
    ELSE <<message.value>>

\* send(message): threw says that the call ended by an exception.
send(c, message) ==
  IF c.ws # 0 /\ c.readyState[c.ws] = "OPEN"
    THEN IF Data(message) = "TypeError"
           THEN [c |-> c, threw |-> TRUE]
           ELSE [c |-> [c EXCEPT !.sent = Append(@, <<c.ws, Data(message)>>)],
                 threw |-> FALSE]
    ELSE [c |-> [c EXCEPT !.messageQueue = Append(@, message)],
          threw |-> FALSE]

\* Mutant of scheduleReconnect: the delay grows by reconnectInterval with
\* every attempt.
scheduleReconnect_LinearDelay(c) ==
  IF c.reconnectAttempts >= maxReconnectAttempts
    THEN trigger(c, "maxReconnectAttemptsReached")
    ELSE [c EXCEPT
            !.reconnectAttempts = @ + 1,
            !.consecutive = @ + 1,
            !.timers = Append(@, [delay |-> reconnectInterval
                                              * (c.reconnectAttempts + 1),
                                  rank |-> c.consecutive + 1])]

\* scheduleReconnect: a timer holds its delay and its rank among the
\* reconnects scheduled since the last successful open.
scheduleReconnect(c) ==
  IF c.reconnectAttempts >= maxReconnectAttempts
    THEN trigger(c, "maxReconnectAttemptsReached")
    ELSE [c EXCEPT
            !.reconnectAttempts = @ + 1,
            !.consecutive = @ + 1,
            !.timers = Append(@, [delay |-> reconnectInterval
                                              * 2 ^ ((c.reconnectAttempts + 1) - 1),
                                  rank |-> c.consecutive + 1])]

\* The socket new WebSocket(url) returns: the first one not yet created.
NewSocket(c) ==
  CHOOSE socket \in Sockets :
    /\ c.readyState[socket] = "none"
    /\ \A other \in Sockets : other < socket => c.readyState[other] # "none"

\* connect(): new WebSocket(url) throws for a url it cannot use; otherwise
\* the new socket is connecting, with the four handlers of
\* setupEventHandlers.
connect(c) ==
  LET c1 == [c EXCEPT !.connectedAfterClose = @ \/ c.closeCalled]
  IN IF c.url = "invalid"
       THEN scheduleReconnect(c1)
       ELSE [c1 EXCEPT !.ws = NewSocket(c),
                       !.readyState[NewSocket(c)] = "CONNECTING"]

\* new WebSocketClient(url)
constructorOfClient(address) == connect([NoClient EXCEPT !.url = address])

\* The loop of onopen, for at most steps more turns: "empty" when it ends
\* with the queue empty, "TypeError" when send throws, "running" when it has
\* not ended after the turns given.
RECURSIVE FlushQueue(_, _)
FlushQueue(c, steps) ==
  IF Len(c.messageQueue) = 0 THEN [c EXCEPT !.flush = "empty"]
  ELSE IF steps = 0 THEN [c EXCEPT !.flush = "running"]
  ELSE LET message == Head(c.messageQueue)
           r == send([c EXCEPT !.messageQueue = Tail(@)], message)
       IN IF r.threw
            THEN [r.c EXCEPT !.flush = "TypeError"]
            ELSE FlushQueue(r.c, steps - 1)

\* ws.onopen: the socket is OPEN when the event is dispatched.  The handler
\* ends at the exception when send throws.
onopen(c, socket) ==
  LET c1 == [c EXCEPT !.readyState[socket] = "OPEN",
                      !.reconnectAttempts = 0,
                      !.consecutive = 0,
                      !.triggered = << >>]
      c2 == FlushQueue(c1, MaxFlushTurns)
  IN IF c2.flush = "empty" THEN trigger(c2, "open") ELSE c2

\* ws.onmessage: the data is handed to the handlers of 'message' and, when
\* it has a type, to the handlers of that type.
onmessage(c, typed) ==
  LET c1 == trigger([c EXCEPT !.triggered = << >>], "message")
  IN IF typed THEN trigger(c1, "type") ELSE c1

\* ws.onerror
onerror(c) == trigger([c EXCEPT !.triggered = << >>], "error")

\* ws.onclose: the socket is CLOSED when the event is dispatched.
onclose(c, socket, code) ==
  LET c1 == trigger([c EXCEPT !.readyState[socket] = "CLOSED",
                              !.triggered = << >>], "close")
  IN IF code # 1000 /\ code # 1001 THEN scheduleReconnect(c1) ELSE c1

\* close(): ws.close(1000, ...) starts the closing handshake of a socket that
\* is connecting or open, and does nothing to one that is closing or closed.
close(c) ==
  LET c1 == [c EXCEPT !.reconnectAttempts = maxReconnectAttempts,
                      !.closeCalled = TRUE]
  IN IF c.ws # 0 /\ c.readyState[c.ws] \in {"CONNECTING", "OPEN"}
       THEN [c1 EXCEPT !.readyState[c.ws] = "CLOSING"]
       ELSE c1

\* ------------------------------------------------------------------------
\* The public methods as actions
\* ------------------------------------------------------------------------
InitPlayfield ==
  /\ isCellColored = [c \in Cells |-> FALSE]
  /\ cellColors = [c \in Cells |-> GRAY]
  /\ currentTetromino = NoPiece
  /\ heldTetromino = "null"
  /\ canHold = TRUE
  /\ shadowCells = {}
  /\ lockDelayStartTime = << >>
  /\ tetrominoBag = << >>
  /\ linesCleared = 0
  /\ score = 0
  /\ onUpdate = "null"
  /\ notified = << >>
  /\ registrations = << >>
  /\ construction = constructor(width, height)
  /\ now = 0
  /\ commits = 0
  /\ settled = FALSE
  /\ ticksOnly = FALSE
  /\ draws = << >>

\* The page of the playfield creates no WebSocketClient.
Init ==
  /\ InitPlayfield
  /\ ClientIs(NoClient)

\* A public method is called only while its outcome g stays within the
\* model's bound on commits.  The return value of a method is the ret field
\* of its operator; it is not part of the state.
WithinBounds(g) == g.commits <= MaxCommits /\ Len(g.draws) <= MaxDraws

\* The values Date.now() can return once it has returned last.
ClockReadings(last) ==
  {t \in {(k * lockDelayMs) \div 2 : k \in 0..MaxTime} : t >= last}

SpawnTetromino ==
  \E s \in spawnTetromino(Self) :
    /\ WithinBounds(s)
    /\ Install(s)

\* Date.now() never runs backwards: it returns a value from now on.
Update ==
  \E currentTime \in ClockReadings(now) :
    \E s \in update(Self, currentTime) :
      /\ WithinBounds(s)
      /\ Install(s)

MoveLeft ==
  LET r == moveLeft(Self)
  IN /\ WithinBounds(r.g)
     /\ Install(r.g)

MoveRight ==
  LET r == moveRight(Self)
  IN /\ WithinBounds(r.g)
     /\ Install(r.g)

MoveDown ==
  LET r == moveDown(Self)
  IN /\ WithinBounds(r.g)
     /\ Install(r.g)

RotateClockwise ==
  LET r == rotateClockwise(Self)
  IN /\ WithinBounds(r.g)
     /\ Install(r.g)

RotateCounterClockwise ==
  LET r == rotateCounterClockwise(Self)
  IN /\ WithinBounds(r.g)
     /\ Install(r.g)

HardDrop ==
  \E r \in hardDrop(Self) :
    /\ WithinBounds(r.g)
    /\ Install(r.g)

HoldTetromino ==
  \E r \in holdTetromino(Self) :
    /\ WithinBounds(r.g)
    /\ Install(r.g)

Next ==
  \/ SpawnTetromino
  \/ Update
  \/ MoveLeft
  \/ MoveRight
  \/ MoveDown
  \/ RotateClockwise
  \/ RotateCounterClockwise
  \/ HardDrop
  \/ HoldTetromino

Spec == Init /\ [][Next]_vars

\* ------------------------------------------------------------------------
\* The playfield left to the driver: the player plays the first
\* MaxPlayedCommits pieces and stops at any moment; from then on only the
\* interval timer calls update().
\* ------------------------------------------------------------------------
\* The time between two ticks: positive, half the lock delay or all of it.
TickAdvances == {lockDelayMs \div 2, lockDelayMs}

Play ==
  /\ ~ticksOnly
  /\ commits < MaxPlayedCommits
  /\ Next

StartTicking ==
  /\ ~ticksOnly
  /\ ticksOnly' = TRUE
  /\ UNCHANGED <<isCellColored, cellColors, currentTetromino, heldTetromino,
                 canHold, shadowCells, lockDelayStartTime, tetrominoBag,
                 linesCleared, score, onUpdate, notified, registrations,
                 construction, now, commits, settled, draws, url,
                 reconnectAttempts, messageQueue, ws, readyState, timers, sent,
                 triggered, flush, closeCalled, connectedAfterClose,
                 consecutive>>

\* setInterval(() => { grid.update(); ... }): the clock has advanced since
\* the tick before.
Tick ==
  /\ ticksOnly
  /\ \E advance \in TickAdvances :
       /\ now + advance <= MaxTickTime * (lockDelayMs \div 2)
       /\ \E s \in update(Self, now + advance) : Install(s)

NextTicks ==
  \/ Play
  \/ StartTicking
  \/ Tick

\* The interval timer keeps firing.
SpecTicks == Init /\ [][NextTicks]_vars /\ WF_vars(Tick)

\* ------------------------------------------------------------------------
\* The score tracker on its own: the Stats of a new playfield, with
\* addLinesCleared and reset called directly.
\* ------------------------------------------------------------------------
AddLinesCleared ==
  \E count \in (-1)..5 :
    LET g == addLinesCleared(Self, count)
    IN /\ g.linesCleared <= MaxLines
       /\ Install(g)

Reset == Install(reset(Self))

SetUpdateCallback ==
  \E callback \in Callbacks \cup {"null"} :
    LET g == setUpdateCallback(Self, callback)
    IN /\ Len(g.registrations) <= MaxRegistrations
       /\ Install(g)

NextStats ==
  \/ AddLinesCleared
  \/ Reset
  \/ SetUpdateCallback

SpecStats == Init /\ [][NextStats]_vars

\* ------------------------------------------------------------------------
\* Construction on its own: new Grid(w, h) with any small dimensions.
\* ------------------------------------------------------------------------
Dimensions == (-MaxDimension)..MaxDimension

\* Before the first new Grid(w, h).
NotConstructed ==
  [width |-> 0, height |-> 0, topRow |-> 0, totalCells |-> 0, outcome |-> "none"]

InitConstruction ==
  /\ isCellColored = [c \in Cells |-> FALSE]
  /\ cellColors = [c \in Cells |-> GRAY]
  /\ currentTetromino = NoPiece
  /\ heldTetromino = "null"
  /\ canHold = TRUE
  /\ shadowCells = {}
  /\ lockDelayStartTime = << >>
  /\ tetrominoBag = << >>
  /\ linesCleared = 0
  /\ score = 0
  /\ onUpdate = "null"
  /\ notified = << >>
  /\ registrations = << >>
  /\ construction = NotConstructed
  /\ now = 0
  /\ commits = 0
  /\ settled = FALSE
  /\ ticksOnly = FALSE
  /\ ClientIs(NoClient)
  /\ draws = << >>

NewGrid ==
  \E w \in Dimensions, h \in Dimensions :
    Install([Self EXCEPT !.construction = constructor(w, h)])

NextConstruction == NewGrid

SpecConstruction == InitConstruction /\ [][NextConstruction]_vars

\* ------------------------------------------------------------------------
\* Row clearing on its own: clearCompletedRows is called in commitTetromino
\* (no active piece, no ghost, no timer) on a stack of rows.
\* ------------------------------------------------------------------------
\* The occupied columns of a row that is not empty: the full row, one cell
\* at either end, all cells but the last, every second cell.
RowPatterns ==
  {0..(width - 1), {0}, {width - 1}, 0..(width - 2),
   {col \in 0..(width - 1) : col % 2 = 1}}

\* The stacks of 0 to height rows, none of them empty.
Stacks == UNION {[1..k -> RowPatterns] : k \in 0..height}

\* The colour a cell of a stack has: one of the 7 piece colours, by position.
StackColor(c) == COLORS[SHAPE_KEYS[((c \div width + 2 * (c % width)) % 7) + 1]]

StackOccupied(stack, c) ==
  /\ c \div width < Len(stack)
  /\ c % width \in stack[c \div width + 1]

InitRows ==
  /\ \E stack \in Stacks :
       /\ isCellColored = [c \in Cells |-> StackOccupied(stack, c)]
       /\ cellColors = [c \in Cells |-> IF StackOccupied(stack, c)
                                          THEN StackColor(c) ELSE GRAY]
  /\ currentTetromino = NoPiece
  /\ heldTetromino = "null"
  /\ canHold = TRUE
  /\ shadowCells = {}
  /\ lockDelayStartTime = << >>
  /\ tetrominoBag = << >>
  /\ linesCleared = 0
  /\ score = 0
  /\ onUpdate = "null"
  /\ notified = << >>
  /\ registrations = << >>
  /\ construction = constructor(width, height)
  /\ now = 0
  /\ commits = 0
  /\ settled = FALSE
  /\ ticksOnly = FALSE
  /\ ClientIs(NoClient)
  /\ draws = << >>

ClearCompletedRows == Install(clearCompletedRows(Self))

NextRows == ClearCompletedRows

SpecRows == InitRows /\ [][NextRows]_vars

\* ------------------------------------------------------------------------
\* The WebSocketClient on its own: the calls of its user, the events of its
\* sockets and its reconnect timers, in any order.
\* ------------------------------------------------------------------------
\* A call or event is taken only while what it leaves stays within the
\* bounds of the model.
ClientWithinBounds(c) ==
  /\ Len(c.messageQueue) <= MaxQueue
  /\ Len(c.sent) <= MaxSent

\* A socket can be created.
SocketsLeft(c) == \E socket \in Sockets : c.readyState[socket] = "none"

InitClient ==
  /\ InitPlayfield
  /\ \E address \in {"valid", "invalid"} :
       ClientIs(constructorOfClient(address))

Send ==
  \E message \in Messages :
    LET r == send(Client, message)
    IN /\ ClientWithinBounds(r.c)
       /\ InstallClient([r.c EXCEPT !.triggered = << >>])

Close ==
  \E c \in {close(Client)} :
    InstallClient([c EXCEPT !.triggered = << >>])

SocketOpens ==
  \E socket \in Sockets :
    /\ readyState[socket] = "CONNECTING"
    /\ ClientWithinBounds(onopen(Client, socket))
    /\ InstallClient(onopen(Client, socket))

SocketMessage ==
  \E socket \in Sockets, typed \in BOOLEAN :
    /\ readyState[socket] = "OPEN"
    /\ InstallClient(onmessage(Client, typed))

SocketError ==
  \E socket \in Sockets :
    /\ readyState[socket] \in {"CONNECTING", "OPEN", "CLOSING"}
    /\ InstallClient(onerror(Client))

SocketCloses ==
  \E socket \in Sockets, code \in CloseCodes :
    /\ readyState[socket] \in {"CONNECTING", "OPEN", "CLOSING"}
    /\ InstallClient(onclose(Client, socket, code))

\* The callback of a reconnect timer: connect().
TimerFires ==
  \E i \in 1..Len(timers) :
    /\ url = "invalid" \/ SocketsLeft(Client)
    /\ InstallClient(
         connect([Client EXCEPT
                    !.triggered = << >>,
                    !.timers = SubSeq(@, 1, i - 1) \o SubSeq(@, i + 1, Len(@))]))

NextClient ==
  \/ Send
  \/ Close
  \/ SocketOpens
  \/ SocketMessage
  \/ SocketError
  \/ SocketCloses
  \/ TimerFires

SpecClient == InitClient /\ [][NextClient]_vars

\* ------------------------------------------------------------------------
\* Render snapshot
\* ------------------------------------------------------------------------
\* The colour of a ghost cell: 0.3 of each colour channel, to the thousandth,
\* and alpha 0.5.
ShadowColor(shape) ==
  <<(COLORS[shape][1] * 3) \div 10, (COLORS[shape][2] * 3) \div 10,
    (COLORS[shape][3] * 3) \div 10, 500>>

\* colors[cellIndex * 4 .. cellIndex * 4 + 3] = color for every cell index of
\* the set; a write outside the buffer is ignored.
Paint(colors, cellIndexes, color) ==
  [c \in Cells |-> IF c \in cellIndexes THEN color ELSE colors[c]]

\* getCellColors painting the ghost after the active piece.
getCellColors_GhostOnTop(g) ==
  [g |-> g,
   ret |->
     IF g.currentTetromino = NoPiece THEN g.cellColors
     ELSE LET positions == getTetrominoPositions(g.currentTetromino)
              active == {c \in {getCellIndex(positions[i][1], positions[i][2])
                                 : i \in 1..4} : c >= 0 /\ c < totalCells}
          IN Paint(Paint(g.cellColors, active,
                         COLORS[g.currentTetromino.tetromino]),
                   g.shadowCells, ShadowColor(g.currentTetromino.tetromino))]

\* getCellColors fills a copy of cellColors and assigns no field: g is the
\* playfield after the call, ret the buffer returned (one RGBA per cell).
getCellColors(g) ==
  [g |-> g,
   ret |->
     IF g.currentTetromino = NoPiece THEN g.cellColors
     ELSE LET positions == getTetrominoPositions(g.currentTetromino)
              active == {c \in {getCellIndex(positions[i][1], positions[i][2])
                                 : i \in 1..4} : c >= 0 /\ c < totalCells}
          IN Paint(Paint(g.cellColors, g.shadowCells,
                         ShadowColor(g.currentTetromino.tetromino)),
                   active, COLORS[g.currentTetromino.tetromino])]

\* ------------------------------------------------------------------------
\* Properties
\* ------------------------------------------------------------------------
HasPiece == currentTetromino # NoPiece

\* The active piece cannot move one row down.
Blocked ==
  ~canPlaceTetromino(Self, [currentTetromino EXCEPT !.centerRow = @ - 1])

GridEmpty == \A c \in Cells : ~isCellColored[c]

\* C1: in every reachable state, each of the 4 cells of the active piece is
\* inside the grid and is not occupied in the static grid.
C1_ActivePieceInBoundsAndFree ==
  HasPiece =>
    \A i \in 1..4 :
      LET pos == getTetrominoPositions(currentTetromino)[i]
      IN /\ pos[1] >= 0 /\ pos[1] < height
         /\ pos[2] >= 0 /\ pos[2] < width
         /\ ~isCellColored[pos[1] * width + pos[2]]

\* A rotated piece rests on a committed cell.
C1_Witness ==
  /\ HasPiece
  /\ currentTetromino.rotationState # "0"
  /\ \E i \in 1..4 :
       LET pos == getTetrominoPositions(currentTetromino)[i]
       IN pos[1] > 0 /\ isCellColored[(pos[1] - 1) * width + pos[2]]

MoveResults ==
  {moveLeft(Self), moveRight(Self), moveDown(Self), rotateClockwise(Self),
   rotateCounterClockwise(Self)} \cup hardDrop(Self)

\* C2: a move, rotation or hard drop that returns false leaves every field of
\* the playfield as it was before the call.
C2_FailedMoveLeavesState ==
  \A r \in MoveResults : r.ret = "false" => r.g = Self

\* A piece other than O whose lock timer runs, with the move to the left
\* blocked and every kick candidate of the clockwise rotation rejected.
C2_Witness ==
  /\ HasPiece
  /\ currentTetromino.tetromino # "O"
  /\ lockDelayStartTime # << >>
  /\ shadowCells = {}
  /\ moveLeft(Self).ret = "false"
  /\ rotateClockwise(Self).ret = "false"

HeldFits ==
  heldTetromino = "null" \/ canPlaceTetromino(Self, SpawnPiece(heldTetromino))

\* C3 as stated: after a hold that returned true, hold returns false until
\* the active piece has been committed and that commit has spawned the next
\* piece, and the first hold after that spawn returns true.
C3_HoldOncePerNaturalSpawn ==
  /\ [](\A r \in holdTetromino(Self) :
          /\ r.ret = "true" => ~r.g.canHold
          /\ ~canHold => r.ret = "false"
          /\ (HasPiece /\ canHold) => r.ret = "true")
  /\ [][(~canHold /\ canHold') =>
          (commits' = commits + 1 /\ currentTetromino' # NoPiece)]_vars

\* C3 as amended: after a hold that returned true, hold returns false until
\* a spawnTetromino (run by the commit of the active piece, or called while
\* there is no active piece) has placed a new piece; a hold after that spawn
\* returns true exactly if the held shape fits at the spawn position.
C3_HoldOncePerSpawn ==
  /\ [](\A r \in holdTetromino(Self) :
          /\ r.ret = "true" => ~r.g.canHold
          /\ ~canHold => r.ret = "false"
          /\ (HasPiece /\ canHold) => (r.ret = "true" <=> HeldFits))
  /\ [][(~canHold /\ canHold') =>
          /\ \E shape \in Shapes : currentTetromino' = SpawnPiece(shape)
          /\ currentTetromino = NoPiece \/ commits' = commits + 1]_vars

\* A shape is held, a commit has spawned the next piece, and hold is accepted.
C3_Witness ==
  /\ HasPiece
  /\ heldTetromino # "null"
  /\ canHold
  /\ commits > 0
  /\ \E r \in holdTetromino(Self) : r.ret = "true"

\* C4: a hold that returns false leaves every field of the playfield, the
\* ghost set included, as it was before the call.
C4_RejectedHoldLeavesState ==
  \A r \in holdTetromino(Self) : r.ret = "false" => r.g = Self

\* The shape getRandomTetromino returns when the bag goes from before to after.
DrawnShape(before, after) ==
  IF Len(before) > 0 THEN before[Len(before)]
  ELSE CHOOSE shape \in Shapes : \A i \in 1..Len(after) : after[i] # shape

\* Exactly one shape was drawn: the last one of a non-empty bag, or one of a
\* fresh bag of all seven shapes.
OneDraw(before, after) ==
  IF Len(before) > 0 THEN after = SubSeq(before, 1, Len(before) - 1)
  ELSE /\ Len(after) = Len(SHAPE_KEYS) - 1
       /\ Cardinality({after[i] : i \in 1..Len(after)}) = Len(after)

\* C5: a successful hold with a shape held puts the held shape at the spawn
\* position, unrotated, holds the shape that was active, clears the lock
\* timer and leaves the bag alone; with no shape held it holds the shape that
\* was active and draws exactly one shape for the new piece.
C5_HoldSwapsOrDraws ==
  \A r \in holdTetromino(Self) :
    r.ret = "true" =>
      /\ r.g.heldTetromino = currentTetromino.tetromino
      /\ IF heldTetromino # "null"
           THEN /\ r.g.currentTetromino =
                     [tetromino |-> heldTetromino, centerRow |-> height - 1,
                      centerCol |-> width \div 2, rotatedPositions |-> << >>,
                      rotationState |-> "0"]
                /\ r.g.lockDelayStartTime = << >>
                /\ r.g.tetrominoBag = tetrominoBag
           ELSE /\ OneDraw(tetrominoBag, r.g.tetrominoBag)
                /\ r.g.currentTetromino # NoPiece =>
                     r.g.currentTetromino =
                       [tetromino |-> DrawnShape(tetrominoBag, r.g.tetrominoBag),
                        centerRow |-> height - 1, centerCol |-> width \div 2,
                        rotatedPositions |-> << >>, rotationState |-> "0"]

\* A hold that swaps a moved, rotated piece whose lock timer runs.
C5_Witness ==
  /\ HasPiece
  /\ heldTetromino # "null"
  /\ lockDelayStartTime # << >>
  /\ currentTetromino.rotationState # "0"
  /\ \E r \in holdTetromino(Self) : r.ret = "true"

\* C6 as stated: the lock timer is set if and only if an active piece exists
\* and that piece cannot move one row down.
C6_TimerSetIffBlocked ==
  lockDelayStartTime # << >> <=> (HasPiece /\ Blocked)

\* C6 as amended: whenever the lock timer is set while an active piece
\* exists, that piece cannot move one row down.
C6_TimerSetOnlyIfBlocked ==
  (lockDelayStartTime # << >> /\ HasPiece) => Blocked

\* A blocked piece whose timer runs, resting above the floor on the stack.
C6_Witness ==
  /\ HasPiece
  /\ lockDelayStartTime # << >>
  /\ Blocked
  /\ \A i \in 1..4 : getTetrominoPositions(currentTetromino)[i][1] > 0

\* C7: update on a blocked piece starts the lock timer if it is not running,
\* and otherwise commits the piece exactly if the time read minus the timer
\* start is at least lockDelayMs; a piece that can descend moves exactly one
\* row down and its timer is cleared, without a commit.
C7_UpdateLockDelay ==
  HasPiece =>
    \A currentTime \in ClockReadings(now) :
      \A s \in update(Self, currentTime) :
        IF ~Blocked
          THEN /\ s.currentTetromino =
                    [currentTetromino EXCEPT !.centerRow = @ - 1]
               /\ s.lockDelayStartTime = << >>
               /\ s.commits = commits
               /\ s.isCellColored = isCellColored
          ELSE IF lockDelayStartTime = << >>
            THEN /\ s.lockDelayStartTime = <<currentTime>>
                 /\ s.currentTetromino = currentTetromino
                 /\ s.commits = commits
                 /\ s.isCellColored = isCellColored
            ELSE /\ s.commits = commits + 1 <=>
                      currentTime - lockDelayStartTime[1] >= lockDelayMs
                 /\ s.commits # commits + 1 =>
                      /\ s.commits = commits
                      /\ s.currentTetromino = currentTetromino
                      /\ s.lockDelayStartTime = lockDelayStartTime
                      /\ s.isCellColored = isCellColored

\* A blocked piece whose timer was started at the current clock reading, so
\* that an update now must wait and a later update must commit.
C7_Witness ==
  /\ HasPiece
  /\ Blocked
  /\ lockDelayStartTime = <<now>>
  /\ \E t \in ClockReadings(now) : t - now >= lockDelayMs
  /\ \E t \in ClockReadings(now) : t - now > 0 /\ t - now < lockDelayMs

\* The row hardDrop lands on: the lowest centre row reachable from the
\* current one with every position on the way being placeable.
LandingRows ==
  {row \in 0..currentTetromino.centerRow :
     /\ \A mid \in row..currentTetromino.centerRow :
          canPlaceTetromino(Self, [currentTetromino EXCEPT !.centerRow = mid])
     /\ ~canPlaceTetromino(Self, [currentTetromino EXCEPT !.centerRow = row - 1])}

LandingCells(row) ==
  PieceCells([currentTetromino EXCEPT !.centerRow = row])

\* Some row of the static grid would be full once the cells are written.
CompletesRow(cells) ==
  \E row \in 0..(height - 1) :
    \A col \in 0..(width - 1) :
      isCellColored[row * width + col] \/ (row * width + col) \in cells

\* No cell of the static grid is occupied below a cell of the active piece.
EmptyBelow ==
  \A i \in 1..4 :
    LET pos == getTetrominoPositions(currentTetromino)[i]
    IN \A row \in 0..(pos[1] - 1) : ~isCellColored[row * width + pos[2]]

\* C8 as stated: hardDrop on an active piece returns true and commits it in
\* the same call, timer or not, on the lowest row reachable by valid one-row
\* descents; on a playfield that is empty below the piece the lowest cell
\* lands on row 0 and the 4 landing cells are occupied, in the colour of the
\* piece, after the call.
C8_HardDropOccupiesLandingCells ==
  HasPiece =>
    \A r \in hardDrop(Self) :
      \A row \in LandingRows :
        /\ r.ret = "true"
        /\ r.g.commits = commits + 1
        /\ EmptyBelow =>
             /\ \E c \in LandingCells(row) : c < width
             /\ \A c \in LandingCells(row) :
                  /\ r.g.isCellColored[c]
                  /\ r.g.cellColors[c] = COLORS[currentTetromino.tetromino]

\* C8 as amended: hardDrop on an active piece returns true and commits it in
\* the same call, timer or not, on the lowest row reachable by valid one-row
\* descents; on a playfield that is empty below the piece the lowest cell
\* lands on row 0; unless the landing completes a row, the static grid after
\* the call is the one before plus the 4 landing cells in the colour of the
\* piece.
C8_HardDropLandsAndCommits ==
  HasPiece =>
    /\ Cardinality(LandingRows) = 1
    /\ \A r \in hardDrop(Self) :
         \A row \in LandingRows :
           /\ r.ret = "true"
           /\ r.g.commits = commits + 1
           /\ EmptyBelow => \E c \in LandingCells(row) : c < width
           /\ ~CompletesRow(LandingCells(row)) =>
                /\ r.g.isCellColored =
                     [c \in Cells |-> isCellColored[c] \/ c \in LandingCells(row)]
                /\ r.g.cellColors =
                     [c \in Cells |->
                        IF c \in LandingCells(row)
                          THEN COLORS[currentTetromino.tetromino]
                          ELSE cellColors[c]]

\* A rotated piece above its landing row, with nothing below it on a
\* playfield that holds committed cells, whose lock timer is not running.
C8_Witness ==
  /\ HasPiece
  /\ lockDelayStartTime = << >>
  /\ ~Blocked
  /\ ~GridEmpty
  /\ EmptyBelow
  /\ currentTetromino.rotationState # "0"

\* C9: if hardDrop would land the active piece where it is, the ghost set
\* is empty.
C9_GhostEmptyAtLanding ==
  (HasPiece /\ getHardDropPosition(Self) = currentTetromino) =>
    shadowCells = {}

\* C10: after a successful moveDown the stored ghost set equals the ghost
\* set updateShadow computes in the resulting state.
C10_GhostCurrentAfterMoveDown ==
  moveDown(Self).ret = "true" =>
    moveDown(Self).g.shadowCells = updateShadow(moveDown(Self).g).shadowCells

SpawnCallStates ==
  (IF ~HasPiece THEN {Self} ELSE {}) \cup
  (IF HasPiece /\ canHold /\ heldTetromino = "null"
     THEN {[Self EXCEPT !.shadowCells = {}, !.currentTetromino = NoPiece]}
     ELSE {})

\* The cells a shape takes at the spawn position, from the catalog.
SpawnCells(shape) ==
  {<<(height - 1) + CELL_POSITIONS[shape][i][1],
     (width \div 2) + CELL_POSITIONS[shape][i][2]>> : i \in 1..4}

SpawnCellOccupied(g, shape) ==
  \E pos \in SpawnCells(shape) : g.isCellColored[pos[1] * width + pos[2]]

RowOccupied(g, row) ==
  \E col \in 0..(width - 1) : g.isCellColored[row * width + col]

\* C12 as stated: a spawn that finds a spawn cell of the drawn shape
\* occupied leaves no active piece and the static grid as it was, and the
\* top row then holds an occupied cell.
C12_FailedSpawnTopRowOccupied ==
  \A g \in SpawnCallStates :
    \A s \in spawnTetromino(g) :
      SpawnCellOccupied(g, DrawnShape(g.tetrominoBag, s.tetrominoBag)) =>
        /\ s.currentTetromino = NoPiece
        /\ s.isCellColored = g.isCellColored
        /\ s.cellColors = g.cellColors
        /\ RowOccupied(s, height - 1)

\* C12 as amended: a spawn that finds a spawn cell of the drawn shape
\* occupied leaves no active piece and the static grid as it was, and the
\* top row or the row below it then holds an occupied cell.
C12_FailedSpawnLeavesNoPiece ==
  \A g \in SpawnCallStates :
    \A s \in spawnTetromino(g) :
      SpawnCellOccupied(g, DrawnShape(g.tetrominoBag, s.tetrominoBag)) =>
        /\ s.currentTetromino = NoPiece
        /\ s.isCellColored = g.isCellColored
        /\ s.cellColors = g.cellColors
        /\ RowOccupied(s, height - 1) \/ RowOccupied(s, height - 2)

\* No piece is active after a commit, and the shape drawn next does not fit.
C12_Witness ==
  /\ ~HasPiece
  /\ commits > 0
  /\ \E s \in spawnTetromino(Self) :
       SpawnCellOccupied(Self, DrawnShape(tetrominoBag, s.tetrominoBag))

\* What the calls that commit nothing can leave: moves, rotations, the
\* snapshot, hold, spawn, and the updates after which no further piece has been committed.
NonCommitResults(withIdleUpdate) ==
  {moveLeft(Self).g, moveRight(Self).g, moveDown(Self).g,
   rotateClockwise(Self).g, rotateCounterClockwise(Self).g,
   getCellColors(Self).g}
  \cup {r.g : r \in holdTetromino(Self)}
  \cup spawnTetromino(Self)
  \cup IF HasPiece \/ withIdleUpdate
         THEN {s \in UNION {update(Self, currentTime) :
                              currentTime \in ClockReadings(now)} :
                 s.commits = commits}
         ELSE {}

\* C14 as stated: once cells are committed, a move, rotation, hold, spawn or
\* update that commits no piece leaves the occupancy and the colour of every
\* static cell as they were.
C14_OnlyCommitChangesGrid ==
  commits > 0 =>
    \A s \in NonCommitResults(TRUE) :
      s.isCellColored = isCellColored /\ s.cellColors = cellColors

\* C14 as amended: once cells are committed, a move, rotation, hold, spawn,
\* or an update made while a piece is active that does not commit it, leaves
\* the occupancy and the colour of every static cell as they were.
C14_OnlyCommitOrIdleUpdateChangesGrid ==
  commits > 0 =>
    \A s \in NonCommitResults(FALSE) :
      s.isCellColored = isCellColored /\ s.cellColors = cellColors

\* A blocked piece rests on committed cells, one of which has an empty cell
\* below it, and an update waits for the lock delay.
C14_Witness ==
  /\ commits > 0
  /\ HasPiece
  /\ Blocked
  /\ lockDelayStartTime # << >>
  /\ \E c \in Cells : c >= width /\ isCellColored[c] /\ ~isCellColored[c - width]
  /\ \E currentTime \in ClockReadings(now) :
       \E s \in update(Self, currentTime) : s.commits = commits

\* The rows piece t of playfield g can land on (exactly one, see C8).
LandingRowsOf(g, t) ==
  {row \in 0..t.centerRow :
     /\ \A mid \in row..t.centerRow :
          canPlaceTetromino(g, [t EXCEPT !.centerRow = mid])
     /\ ~canPlaceTetromino(g, [t EXCEPT !.centerRow = row - 1])}

\* The ghost set a recomputation gives piece t of playfield g.
GhostOf(g, t) ==
  LET row == CHOOSE r \in LandingRowsOf(g, t) : TRUE
  IN IF row = t.centerRow THEN {}
     ELSE PieceCells([t EXCEPT !.centerRow = row])

\* C13: spawnTetromino changes nothing when a piece is active; otherwise it
\* draws one shape and, if the spawn cells of that shape are free, makes it
\* the active piece at (height-1, floor(width/2)), unrotated, clears the
\* lock timer, allows hold and recomputes the ghost.
C13_SpawnPlacesDrawnShape ==
  /\ HasPiece => spawnTetromino(Self) = {Self}
  /\ \A g \in SpawnCallStates :
       \A s \in spawnTetromino(g) :
         /\ OneDraw(g.tetrominoBag, s.tetrominoBag)
         /\ ~SpawnCellOccupied(g, DrawnShape(g.tetrominoBag, s.tetrominoBag)) =>
              /\ s.currentTetromino =
                   [tetromino |-> DrawnShape(g.tetrominoBag, s.tetrominoBag),
                    centerRow |-> height - 1, centerCol |-> width \div 2,
                    rotatedPositions |-> << >>, rotationState |-> "0"]
              /\ s.lockDelayStartTime = << >>
              /\ s.canHold
              /\ s.shadowCells = GhostOf(s, s.currentTetromino)
              /\ s.isCellColored = g.isCellColored
              /\ s.heldTetromino = g.heldTetromino

\* No piece is active, the lock timer of the last piece is still set and
\* hold is used up, and the shape drawn next fits.
C13_Witness ==
  /\ ~HasPiece
  /\ lockDelayStartTime # << >>
  /\ ~canHold
  /\ \E s \in spawnTetromino(Self) : s.currentTetromino # NoPiece

\* C15: with the O shape active, rotate returns false in either direction
\* and leaves every field as it was.
C15_RotateRejectsO ==
  (HasPiece /\ currentTetromino.tetromino = "O") =>
    \A clockwise \in BOOLEAN :
      rotate(Self, clockwise) = [g |-> Self, ret |-> "false"]

\* An O piece that has left the spawn position, above committed cells, with
\* a ghost and room to move.
C15_Witness ==
  /\ HasPiece
  /\ currentTetromino.tetromino = "O"
  /\ currentTetromino.centerRow < topRow
  /\ currentTetromino.centerCol # width \div 2
  /\ shadowCells # {}
  /\ commits > 0

\* The relative offsets of a piece.
Offsets(t) ==
  IF t.rotatedPositions # << >> THEN t.rotatedPositions
  ELSE CELL_POSITIONS[t.tetromino]

RECURSIVE RotateOffsets(_, _)
RotateOffsets(relativePositions, n) ==
  IF n = 0 THEN relativePositions
  ELSE RotateOffsets(rotateRelativePosition(relativePositions, TRUE), n - 1)

RECURSIVE AdvanceState(_, _)
AdvanceState(state, n) ==
  IF n = 0 THEN state
  ELSE AdvanceState(getRotationTransition(state, TRUE), n - 1)

\* The playfield after n clockwise rotations, each one accepted with the
\* (0,0) kick candidate; the empty set if one of them is not.
RECURSIVE RotateInPlace(_, _)
RotateInPlace(g, n) ==
  IF n = 0 THEN {g}
  ELSE LET r == rotateClockwise(g)
       IN IF /\ r.ret = "true"
             /\ r.g.currentTetromino.centerRow = g.currentTetromino.centerRow
             /\ r.g.currentTetromino.centerCol = g.currentTetromino.centerCol
            THEN RotateInPlace(r.g, n - 1)
            ELSE {}

\* C16: for every shape but O and every rotation state the active piece
\* gets into, four clockwise rotations give back its offsets and its
\* rotation state, and when each of the four is accepted with the (0,0)
\* candidate the piece is back with the same rotation state, offsets and
\* centre.
C16_FourRotationsReturn ==
  (HasPiece /\ currentTetromino.tetromino # "O") =>
    /\ RotateOffsets(Offsets(currentTetromino), 4) = Offsets(currentTetromino)
    /\ AdvanceState(currentTetromino.rotationState, 4) =
         currentTetromino.rotationState
    /\ \A s \in RotateInPlace(Self, 4) :
         /\ s.currentTetromino.rotationState = currentTetromino.rotationState
         /\ Offsets(s.currentTetromino) = Offsets(currentTetromino)
         /\ s.currentTetromino.centerRow = currentTetromino.centerRow
         /\ s.currentTetromino.centerCol = currentTetromino.centerCol

\* A rotated piece above committed cells with room for four rotations in
\* place.
C16_Witness ==
  /\ HasPiece
  /\ currentTetromino.tetromino # "O"
  /\ currentTetromino.rotationState = "L"
  /\ commits > 0
  /\ RotateInPlace(Self, 4) # {}

\* The rotation state after fromState in the cycle spawn, right, 180, left
\* (before it, counter-clockwise).
NextInCycle(fromState, clockwise) ==
  LET cycle == <<"0", "R", "2", "L">>
      at == CHOOSE i \in 1..4 : cycle[i] = fromState
  IN IF clockwise THEN cycle[(at % 4) + 1] ELSE cycle[((at + 2) % 4) + 1]

\* The kick candidates of the active piece for a rotation, from the catalog.
KickCandidates(clockwise) ==
  LET key == currentTetromino.rotationState \o
               NextInCycle(currentTetromino.rotationState, clockwise)
  IN IF currentTetromino.tetromino = "I" THEN KICKS_I[key]
     ELSE KICKS_JLSTZ[key]

\* The offsets of the active piece turned a quarter.
TurnedOffsets(clockwise) ==
  [i \in 1..4 |->
     IF clockwise
       THEN <<Offsets(currentTetromino)[i][2], -Offsets(currentTetromino)[i][1]>>
       ELSE <<-Offsets(currentTetromino)[i][2], Offsets(currentTetromino)[i][1]>>]

\* With candidate k all 4 turned cells are in bounds and unoccupied.
KickFits(clockwise, k) ==
  \A i \in 1..4 :
    LET row == currentTetromino.centerRow + KickCandidates(clockwise)[k][1]
                 + TurnedOffsets(clockwise)[i][1]
        col == currentTetromino.centerCol + KickCandidates(clockwise)[k][2]
                 + TurnedOffsets(clockwise)[i][2]
    IN /\ row >= 0 /\ row < height /\ col >= 0 /\ col < width
       /\ ~isCellColored[row * width + col]

FirstFit(clockwise) ==
  {k \in 1..Len(KickCandidates(clockwise)) :
     KickFits(clockwise, k) /\ \A j \in 1..(k - 1) : ~KickFits(clockwise, j)}

\* C17: rotate commits the first kick candidate, in table order, for which
\* the 4 turned cells are in bounds and unoccupied: the centre moves by that
\* offset, the offsets are the turned ones, the rotation state advances one
\* step in the cycle and the lock timer is cleared; if no candidate fits it
\* returns false and every field is as it was.
C17_RotateCommitsFirstFit ==
  (HasPiece /\ currentTetromino.tetromino # "O") =>
    \A clockwise \in BOOLEAN :
      LET r == rotate(Self, clockwise)
      IN /\ Len(KickCandidates(clockwise)) = 5
         /\ FirstFit(clockwise) = {} => r = [g |-> Self, ret |-> "false"]
         /\ \A k \in FirstFit(clockwise) :
              /\ r.ret = "true"
              /\ r.g.currentTetromino =
                   [tetromino |-> currentTetromino.tetromino,
                    centerRow |-> currentTetromino.centerRow
                                    + KickCandidates(clockwise)[k][1],
                    centerCol |-> currentTetromino.centerCol
                                    + KickCandidates(clockwise)[k][2],
                    rotatedPositions |-> TurnedOffsets(clockwise),
                    rotationState |->
                      NextInCycle(currentTetromino.rotationState, clockwise)]
              /\ r.g.lockDelayStartTime = << >>
              /\ r.g.isCellColored = isCellColored
              /\ r.g.cellColors = cellColors
              /\ r.g.heldTetromino = heldTetromino
              /\ r.g.canHold = canHold
              /\ r.g.tetrominoBag = tetrominoBag

\* A blocked piece above committed cells whose timer runs and whose
\* clockwise rotation is accepted with a later candidate than (0,0), while
\* the counter-clockwise one runs out of candidates.
C17_Witness ==
  /\ HasPiece
  /\ currentTetromino.tetromino # "O"
  /\ lockDelayStartTime # << >>
  /\ commits > 0
  /\ \E k \in FirstFit(TRUE) : k > 2
  /\ FirstFit(FALSE) = {}

\* The draws 7k+1 .. 7k+7.
DrawBlock(k) == {draws[7 * k + i] : i \in 1..7}

\* Every sequence of indices j the six calls of Math.random() in one shuffle
\* can give: js[i] is in 0..i.
AllIndexStreams ==
  {js \in [1..(Len(SHAPE_KEYS) - 1) -> 0..(Len(SHAPE_KEYS) - 1)] :
     \A i \in 1..(Len(SHAPE_KEYS) - 1) : js[i] <= i}

\* C18: draws 7k+1 through 7k+7 from the bag are a permutation of the seven
\* shapes, whatever call made them; the draws of a block under way are
\* distinct; the bag holds no shape twice, is empty exactly when a block is
\* complete, and a draw from a bag that is not empty removes its last shape
\* without a refill; whatever Math.random() returns, the shuffle of a new
\* bag leaves a permutation of the seven shapes.
C18_BagDrawsArePermutations ==
  /\ \A k \in 0..((Len(draws) \div 7) - 1) : DrawBlock(k) = Shapes
  /\ \A i, j \in (7 * (Len(draws) \div 7) + 1)..Len(draws) :
       draws[i] = draws[j] => i = j
  /\ Cardinality({tetrominoBag[i] : i \in 1..Len(tetrominoBag)}) =
       Len(tetrominoBag)
  /\ Len(tetrominoBag) = (7 - (Len(draws) % 7)) % 7
  /\ \A d \in getRandomTetromino(Self) :
       /\ OneDraw(tetrominoBag, d.g.tetrominoBag)
       /\ d.g.draws = Append(draws, d.ret)
  /\ draws = << >> =>
       \A js \in AllIndexStreams :
         LET bag == FisherYates(SHAPE_KEYS, Len(SHAPE_KEYS) - 1, js)
         IN Len(bag) = 7 /\ {bag[i] : i \in 1..7} = Shapes

\* Two bags have been drawn, some draws by spawns that found no room and one
\* by a hold, and a piece is active.
C18_Witness ==
  /\ Len(draws) >= 14
  /\ commits < Len(draws) - 4
  /\ heldTetromino # "null"
  /\ HasPiece

\* C19: no shape is drawn three times in a row, and between two consecutive
\* draws of the same shape there are at most 12 draws of other shapes.
C19_BoundedRepeatDistance ==
  /\ \A i \in 1..(Len(draws) - 2) :
       ~(draws[i] = draws[i + 1] /\ draws[i + 1] = draws[i + 2])
  /\ \A i, j \in 1..Len(draws) :
       (/\ i < j
        /\ draws[i] = draws[j]
        /\ \A m \in (i + 1)..(j - 1) : draws[m] # draws[i]) => j - i - 1 <= 12

\* A shape drawn first of one bag and last of the next one, 12 draws apart,
\* and then again as the first of the third bag.
C19_Witness ==
  /\ Len(draws) = 15
  /\ draws[1] = draws[14]
  /\ draws[14] = draws[15]
  /\ \A m \in 2..13 : draws[m] # draws[1]

\* C20: addLinesCleared(n), n in 1..4, adds n to the line total L and 100,
\* 300, 500 or 800 times the level 1 + floor(L/10) of the total before the
\* call to the score: with L < 10 exactly 100/300/500/800, and 200 for one
\* line with 10 <= L < 20.
C20_ScoreAward ==
  \A n \in 1..4 :
    LET s == addLinesCleared(Self, n)
        award == s.score - score
    IN /\ s.linesCleared = linesCleared + n
       /\ award = <<100, 300, 500, 800>>[n] * (1 + (linesCleared \div 10))
       /\ linesCleared < 10 => award = <<100, 300, 500, 800>>[n]
       /\ (n = 1 /\ linesCleared >= 10 /\ linesCleared < 20) => award = 200

\* The line total is one short of the next level, with points scored at
\* level 2.
C20_Witness ==
  /\ linesCleared = 19
  /\ score > 1900

\* The totals are not negative, and the level L is the one with
\* 10 * (L - 1) <= linesCleared < 10 * L.
TotalsInRange ==
  /\ linesCleared >= 0
  /\ score >= 0
  /\ 10 * (getLevel(linesCleared) - 1) <= linesCleared
  /\ linesCleared < 10 * getLevel(linesCleared)

\* C21 as stated: over every step of the score tracker linesCleared and score
\* do not decrease, both are never negative, and the level is
\* 1 + floor(linesCleared / 10).
C21_TotalsNeverDecrease ==
  /\ []TotalsInRange
  /\ [][linesCleared' >= linesCleared /\ score' >= score]_vars

\* C21: over every step of the score tracker other than a reset, linesCleared
\* and score do not decrease; a reset sets both to 0; both are never negative
\* and the level is 1 + floor(linesCleared / 10).
C21_TotalsNeverDecreaseButByReset ==
  /\ []TotalsInRange
  /\ [][\/ linesCleared' >= linesCleared /\ score' >= score
        \/ Reset /\ linesCleared' = 0 /\ score' = 0]_vars

\* Lines have been counted at level 2.
C21_Witness ==
  /\ linesCleared > 10
  /\ score > 2000

\* The listener of the latest setUpdateCallback call ("null" before any).
LastRegistered ==
  IF registrations = << >> THEN "null"
  ELSE registrations[Len(registrations)]

\* C22: addLinesCleared(n) with n > 0 calls the registered listener exactly
\* once, and the listener reads the totals with the n lines and their points
\* already added; with n <= 0 no field changes and no listener is called;
\* whatever was registered before, only the listener of the latest
\* registration is called.
C22_ListenerCalledOnceAfterUpdate ==
  /\ \A i \in DOMAIN notified : notified[i].callback = LastRegistered
  /\ \A n \in (-1)..5 :
       LET g == addLinesCleared(Self, n)
       IN /\ n <= 0 => g = [Self EXCEPT !.notified = << >>]
          /\ (n > 0 /\ LastRegistered = "null") => g.notified = << >>
          /\ (n > 0 /\ LastRegistered # "null") =>
               /\ Len(g.notified) = 1
               /\ g.notified[1].callback = LastRegistered
               /\ g.notified[1].linesCleared = linesCleared + n
               /\ g.notified[1].score = g.score
               /\ g.score > score

\* A second listener has replaced the first and has been called with lines
\* counted.
C22_Witness ==
  /\ Len(registrations) = 2
  /\ registrations[1] # "null"
  /\ registrations[2] # "null"
  /\ registrations[1] # registrations[2]
  /\ notified # << >>
  /\ linesCleared > 0

\* colour is the colour of shape at three tenths of its red, green and blue
\* (to the thousandth) and at half opacity.
IsDimmed(colour, shape) ==
  /\ Len(colour) = 4
  /\ colour[4] = 500
  /\ \A k \in 1..3 : /\ 10 * colour[k] <= 3 * COLORS[shape][k]
                      /\ 3 * COLORS[shape][k] < 10 * (colour[k] + 1)

\* C23: getCellColors returns one RGBA per cell of the grid (width * height
\* * 4 numbers): the colour of the active piece on the cells of the active
\* piece, ghost cell or not; the dimmed colour of the active piece on the
\* other cells of the ghost set; the static colour elsewhere.  The call
\* leaves every field of the playfield, the static colours included, as it
\* was.
C23_SnapshotOverlaysPieceOverGhost ==
  LET r == getCellColors(Self)
      own == IF HasPiece THEN PieceCells(currentTetromino) ELSE {}
  IN /\ r.g = Self
     /\ DOMAIN r.ret = 0..(width * height - 1)
     /\ \A c \in Cells :
          /\ Len(r.ret[c]) = 4
          /\ c \in own => r.ret[c] = COLORS[currentTetromino.tetromino]
          /\ (c \in shadowCells /\ c \notin own) =>
               /\ HasPiece
               /\ IsDimmed(r.ret[c], currentTetromino.tetromino)
          /\ (c \notin shadowCells /\ c \notin own) => r.ret[c] = cellColors[c]

\* Over committed cells, the active piece stands on some cells of the ghost
\* set and above others.
C23_Witness ==
  /\ HasPiece
  /\ ~GridEmpty
  /\ PieceCells(currentTetromino) \cap shadowCells # {}
  /\ shadowCells \ PieceCells(currentTetromino) # {}

\* The number of rows the active piece stands on.
RowsTall ==
  LET rows == {getTetrominoPositions(currentTetromino)[i][1] : i \in 1..4}
  IN Cardinality(rows)

ProbedRows == (-2)..(height + 1)

ProbedCols == (-2)..(width + 1)

\* The <<row, col>> of the cells of the grid that are not occupied in the
\* static grid.
EmptyCellPositions ==
  {<<c \div width, c % width>> : c \in {e \in Cells : ~isCellColored[e]}}

\* C25: isValidPosition(row, col) is true exactly when (row, col) is a cell of
\* the grid that is not occupied in the static grid, false for every other
\* position, and reads isCellColored at no index outside the grid.
C25_ValidIffInBoundsAndEmpty ==
  LET empty == EmptyCellPositions
  IN \A row \in ProbedRows : \A col \in ProbedCols :
       /\ isValidPosition(Self, row, col) <=> <<row, col>> \in empty
       /\ IndicesReadByIsValidPosition(row, col) \subseteq Cells

\* The last cell of the bottom row is occupied and the first cell of the row
\* above it is empty: position (1, -1) has the index of the former.
C25_Witness ==
  /\ isCellColored[width - 1]
  /\ ~isCellColored[width]
  /\ HasPiece

\* C26: new Grid(w, h) with w <= 0 or h <= 0 does not return a playfield.
C26_NonPositiveDimensionsRejected ==
  (construction.width <= 0 \/ construction.height <= 0) =>
    construction.outcome # "constructed"

Rows == 0..(height - 1)

Cols == 0..(width - 1)

RowIsEmpty(g, row) == \A col \in Cols : ~g.isCellColored[row * width + col]

RowIsFull(g, row) == \A col \in Cols : g.isCellColored[row * width + col]

\* No empty row lies below a row with an occupied cell.
NoGap(g) ==
  \A low \in Rows : \A high \in Rows :
    (low < high /\ RowIsEmpty(g, low)) => RowIsEmpty(g, high)

\* The rows that stay: neither empty nor full.
KeptRows == {row \in Rows : ~RowIsEmpty(Self, row) /\ ~RowIsFull(Self, row)}

FullRows == {row \in Rows : RowIsFull(Self, row)}

\* The row a kept row is found on afterwards: the number of kept rows below.
RowAfter(row) == Cardinality({below \in KeptRows : below < row})

\* C27: on a stack with no empty row below an occupied cell,
\* clearCompletedRows reports the number of full rows, leaves no full row,
\* leaves the rows that are neither empty nor full, cell by cell and colour
\* by colour, in their order on rows 0, 1, ..., and leaves every row above
\* them empty; one full bottom row and nothing else gives an empty grid and a
\* count of 1.
C27_ClearCompactsStack ==
  NoGap(Self) =>
    LET g == clearCompletedRows(Self)
    IN /\ g.linesCleared - linesCleared = Cardinality(FullRows)
       /\ \A row \in Rows : ~RowIsFull(g, row)
       /\ \A row \in KeptRows : \A col \in Cols :
            /\ g.isCellColored[RowAfter(row) * width + col]
                 = isCellColored[row * width + col]
            /\ g.cellColors[RowAfter(row) * width + col]
                 = cellColors[row * width + col]
       /\ \A row \in Rows : row >= Cardinality(KeptRows) => RowIsEmpty(g, row)
       /\ (FullRows = {0} /\ KeptRows = {}) =>
            /\ \A c \in Cells : ~g.isCellColored[c]
            /\ g.linesCleared - linesCleared = 1

\* Two full rows have been cleared from between rows that are now rows 0
\* and 1.
C27_Witness ==
  /\ linesCleared = 2
  /\ ~RowIsEmpty(Self, 0)
  /\ ~RowIsEmpty(Self, 1)
  /\ \E col \in Cols : cellColors[col] = StackColor(width + col)

\* The playfields a commit of the active piece can leave: by hardDrop, and by
\* an update that finds the lock delay over.
CommitResults ==
  {r.g : r \in {h \in hardDrop(Self) : h.ret = "true"}}
    \cup UNION {{s \in update(Self, currentTime) : s.commits > commits}
               : currentTime \in ClockReadings(now)}

\* C28: the static grid never has an empty row below a row with an occupied
\* cell, neither between calls nor when the active piece has been written to
\* it on its landing row, so the scan of clearCompletedRows meets every full
\* row: no commit leaves a full row behind.
C28_StackHasNoGap ==
  /\ NoGap(Self)
  /\ HasPiece =>
       \A row \in LandingRows :
         NoGap(placeTetromino(Self, [currentTetromino EXCEPT !.centerRow = row]))
  /\ \A g \in CommitResults : \A row \in Rows : ~RowIsFull(g, row)

\* Over two rows that are not empty the active piece rests where its cells
\* complete a row.
C28_Witness ==
  /\ HasPiece
  /\ Blocked
  /\ ~RowIsEmpty(Self, 0)
  /\ ~RowIsEmpty(Self, 1)
  /\ CompletesRow(PieceCells(currentTetromino))
  /\ CommitResults # {}

\* What a call that commits piece p must leave in playfield g: the static
\* grid is the grid with the 4 cells of p written in the colour of p, less
\* its full rows, each counted once, the other rows moved down in order; the
\* lock timer is not set; one shape has been drawn, and the active piece is
\* that shape as spawned, with its own ghost, or there is none and the ghost
\* set is empty.
CommitEffect(p, g) ==
  LET placed == PieceCells(p)
      occupied(c) == isCellColored[c] \/ c \in placed
      colour(c) == IF c \in placed THEN COLORS[p.tetromino] ELSE cellColors[c]
      full == {row \in Rows : \A col \in Cols : occupied(row * width + col)}
      kept == {row \in Rows \ full : \E col \in Cols : occupied(row * width + col)}
      rowAfter(row) == Cardinality({below \in kept : below < row})
      shape == g.draws[Len(g.draws)]
  IN /\ \A row \in kept : \A col \in Cols :
          /\ g.isCellColored[rowAfter(row) * width + col]
               = occupied(row * width + col)
          /\ g.cellColors[rowAfter(row) * width + col] = colour(row * width + col)
     /\ \A row \in Rows : row >= Cardinality(kept) => RowIsEmpty(g, row)
     /\ g.linesCleared = linesCleared + Cardinality(full)
     /\ g.lockDelayStartTime = << >>
     /\ g.commits = commits + 1
     /\ Len(g.draws) = Len(draws) + 1
     /\ \/ /\ g.currentTetromino =
                 [tetromino |-> shape, centerRow |-> height - 1,
                  centerCol |-> width \div 2, rotatedPositions |-> << >>,
                  rotationState |-> "0"]
           /\ g.shadowCells = GhostOf(g, g.currentTetromino)
        \/ /\ g.currentTetromino = NoPiece
           /\ g.shadowCells = {}

\* C29: a call that commits the active piece (hardDrop, or an update that
\* finds the lock delay over) writes the 4 cells of the piece in its colour
\* before the rows are cleared, clears the ghost set and the lock timer,
\* clears the rows once and makes one spawn attempt: afterwards the active
\* piece is a newly drawn shape at the spawn position in rotation state "0",
\* or there is none.
C29_CommitWritesClearsSpawns ==
  /\ \A r \in hardDrop(Self) :
       r.ret = "true" =>
         \A row \in LandingRows :
           CommitEffect([currentTetromino EXCEPT !.centerRow = row], r.g)
  /\ \A currentTime \in ClockReadings(now) :
       \A s \in update(Self, currentTime) :
         s.commits > commits => CommitEffect(currentTetromino, s)

\* A commit has cleared a row and spawned the next piece over what is left.
C29_Witness ==
  /\ commits >= 1
  /\ linesCleared >= 1
  /\ ~GridEmpty
  /\ HasPiece
  /\ currentTetromino.centerRow = height - 1

\* What a successful move by direction columns must leave in playfield g.
MovedSideways(g, direction) ==
  /\ g.currentTetromino.centerCol = currentTetromino.centerCol + direction
  /\ g.currentTetromino.centerRow = currentTetromino.centerRow
  /\ g.currentTetromino.rotatedPositions = currentTetromino.rotatedPositions
  /\ g.currentTetromino.rotationState = currentTetromino.rotationState
  /\ g.currentTetromino.tetromino = currentTetromino.tetromino
  /\ g.isCellColored = isCellColored
  /\ g.cellColors = cellColors
  /\ g.heldTetromino = heldTetromino
  /\ g.canHold = canHold
  /\ g.tetrominoBag = tetrominoBag
  /\ g.draws = draws
  /\ g.score = score
  /\ g.linesCleared = linesCleared
  /\ g.lockDelayStartTime = << >>
  /\ g.shadowCells = GhostOf(g, g.currentTetromino)

\* C30: a moveLeft (moveRight) that returns true moves the centre of the
\* active piece one column to the left (right), clears the lock timer and
\* leaves the ghost that belongs to the new column; centre row, offsets,
\* rotation state, shape, static grid, held shape, hold guard, bag and score
\* stay as they were.
C30_SidewaysMoveFrame ==
  /\ moveLeft(Self).ret = "true" => MovedSideways(moveLeft(Self).g, -1)
  /\ moveRight(Self).ret = "true" => MovedSideways(moveRight(Self).g, 1)

\* With the lock timer running over committed cells, the piece can move to
\* the left, where it lands on another row than it would here.
C30_Witness ==
  /\ HasPiece
  /\ ~GridEmpty
  /\ lockDelayStartTime # << >>
  /\ moveLeft(Self).ret = "true"
  /\ moveLeft(Self).g.shadowCells # {}
  /\ shadowCells = {}

\* C31: whenever the lock timer is set there is an active piece.
C31_TimerOnlyWithPiece ==
  lockDelayStartTime # << >> => HasPiece

\* C32: a holdTetromino that returns true leaves an active piece.
C32_SuccessfulHoldLeavesPiece ==
  \A r \in holdTetromino(Self) :
    r.ret = "true" => r.g.currentTetromino # NoPiece

OccupiedCells == {c \in Cells : isCellColored[c]}

\* C33: the occupied cells of the static grid and width cells for every line
\* counted make up 4 cells for every piece committed.
C33_CellsAreConserved ==
  Cardinality(OccupiedCells) + width * linesCleared = 4 * commits

\* Two pieces have been committed and a row has been cleared.
C33_Witness ==
  /\ commits = 2
  /\ linesCleared = 1
  /\ Cardinality(OccupiedCells) = 3

\* The rows the active piece stands on when it is committed on centre row
\* row.
RowsOfPieceAt(row) ==
  {getTetrominoPositions([currentTetromino EXCEPT !.centerRow = row])[i][1]
     : i \in 1..4}

\* The awards of addLinesCleared for 0 to 4 rows at the level of the moment.
AwardsUpToFourRows ==
  {0} \cup {base * (1 + (linesCleared \div 10))
            : base \in {SCORE_SINGLE, SCORE_DOUBLE, SCORE_TRIPLE, SCORE_TETRIS}}

\* C34: as long as end gravity has moved no cell, the static grid has no full
\* row between calls, so a commit clears only rows the committed piece
\* stands on: between 0 and 4 rows are counted, and the award is none or one
\* of the four table values times the level, never 200 * n.
C34_CommitClearsAtMostFourRows ==
  ~settled =>
    /\ \A row \in Rows : ~RowIsFull(Self, row)
    /\ \A g \in CommitResults :
         /\ g.linesCleared - linesCleared \in 0..4
         /\ g.score - score \in AwardsUpToFourRows
    /\ \A r \in hardDrop(Self) :
         r.ret = "true" =>
           \A row \in LandingRows :
             r.g.linesCleared - linesCleared <= Cardinality(RowsOfPieceAt(row))

\* With two pieces committed and no cell moved by end gravity, a hard drop
\* of the active piece completes a row.
C34_Witness ==
  /\ ~settled
  /\ commits = 2
  /\ HasPiece
  /\ \E r \in hardDrop(Self) : r.g.linesCleared > linesCleared

\* What the player's calls return and leave, spawnTetromino apart.
PlayerCallResults ==
  {moveLeft(Self), moveRight(Self), moveDown(Self), rotateClockwise(Self),
   rotateCounterClockwise(Self)}
    \cup hardDrop(Self) \cup holdTetromino(Self)

\* What a tick can leave, whatever the clock reads.
TickResults ==
  UNION {update(Self, currentTime) : currentTime \in ClockReadings(now)}

\* C35: while there is no active piece, every move, rotation, hard drop and
\* hold returns false and changes nothing, and a tick leaves the piece
\* absent and the score, the lines, the held shape and the bag as they were.
\* Every state those calls leave is again a state without a piece, so no
\* sequence of them creates one.
C35_NoPieceWithoutSpawn ==
  ~HasPiece =>
    /\ \A r \in PlayerCallResults : r.ret = "false" /\ r.g = Self
    /\ \A g \in TickResults :
         /\ g.currentTetromino = NoPiece
         /\ g.score = score
         /\ g.linesCleared = linesCleared
         /\ g.heldTetromino = heldTetromino
         /\ g.tetrominoBag = tetrominoBag

\* A spawn attempt has failed after two commits, a tick has since moved a
\* cell, and an explicit spawnTetromino call would now give a piece.
C35_Witness ==
  /\ ~HasPiece
  /\ commits = 2
  /\ settled
  /\ \E g \in spawnTetromino(Self) : g.currentTetromino # NoPiece

\* The rows of the occupied cells of a column.
ColumnRows(g, col) == {row \in Rows : g.isCellColored[getCellIndex(row, col)]}

\* The k-th row of a set of rows, counted from the floor.
NthRow(rows, k) ==
  CHOOSE row \in rows : Cardinality({below \in rows : below < row}) = k - 1

\* The frame of a tick without a piece: as many occupied cells in every
\* column as before, in the same order and colours, each on its row or one
\* row lower; score, lines, active and held piece as before. mayFall(rows,
\* after, k) says when the k-th cell of a column may be one row lower.
EndGravityFrame(g, mayFall(_, _, _)) ==
  /\ g.score = score
  /\ g.linesCleared = linesCleared
  /\ g.currentTetromino = currentTetromino
  /\ g.heldTetromino = heldTetromino
  /\ \A col \in Cols :
       LET rows == ColumnRows(Self, col)
           after == ColumnRows(g, col)
       IN /\ Cardinality(after) = Cardinality(rows)
          /\ \A k \in 1..Cardinality(rows) :
               /\ g.cellColors[getCellIndex(NthRow(after, k), col)]
                    = cellColors[getCellIndex(NthRow(rows, k), col)]
               /\ NthRow(after, k) \in {NthRow(rows, k), NthRow(rows, k) - 1}
               /\ NthRow(after, k) # NthRow(rows, k) => mayFall(rows, after, k)

\* The cell below the k-th cell was empty before the call.
LowerNeighbourWasEmpty(rows, after, k) == (NthRow(rows, k) - 1) \notin rows

\* The cell below the k-th cell was empty before the call, or held the cell
\* next below in the column, which the same call moved down first.
LowerNeighbourEmptyOrFallen(rows, after, k) ==
  \/ (NthRow(rows, k) - 1) \notin rows
  \/ /\ k > 1
     /\ NthRow(rows, k - 1) = NthRow(rows, k) - 1
     /\ NthRow(after, k - 1) = NthRow(rows, k - 1) - 1

\* C36 as stated: a tick without a piece moves a cell only into the cell
\* below it that was empty, never a cell whose lower neighbour was occupied.
C36_EndGravityMovesOntoEmpty ==
  ~HasPiece =>
    \A g \in TickResults : EndGravityFrame(g, LowerNeighbourWasEmpty)

\* C36: a tick without a piece moves an occupied cell by at most one row,
\* into the cell directly below it, which was empty or has been vacated by
\* the same call; it keeps the number, colours and vertical order of the
\* cells of every column, never moves a cell whose lower neighbour is
\* occupied and stays, and changes neither score nor lines nor the active
\* or held piece.
C36_EndGravityMovesOneRow ==
  ~HasPiece =>
    \A g \in TickResults : EndGravityFrame(g, LowerNeighbourEmptyOrFallen)

\* A column holds two cells one on the other above an empty cell, and a tick
\* without a piece moves both down.
C36_Witness ==
  /\ ~HasPiece
  /\ \E col \in Cols :
       \E k \in 2..Cardinality(ColumnRows(Self, col)) :
         LET rows == ColumnRows(Self, col)
             after == ColumnRows(applyEndGravity(Self), col)
         IN /\ NthRow(rows, k - 1) = NthRow(rows, k) - 1
            /\ NthRow(after, k) = NthRow(rows, k) - 1

\* What a tick does to an active piece: one row down while it can descend;
\* once it is blocked the timer is started, and the piece is committed by
\* the tick that finds the timer has run for lockDelayMs, not before.
TickOnPiece ==
  IF ~Blocked
    THEN /\ currentTetromino' = [currentTetromino EXCEPT !.centerRow = @ - 1]
         /\ commits' = commits
  ELSE IF lockDelayStartTime = << >>
    THEN /\ currentTetromino' = currentTetromino
         /\ commits' = commits
         /\ lockDelayStartTime' = <<now'>>
  ELSE IF now' - lockDelayStartTime[1] >= lockDelayMs
    THEN commits' = commits + 1
  ELSE /\ currentTetromino' = currentTetromino
       /\ commits' = commits
       /\ lockDelayStartTime' = lockDelayStartTime

\* C37: once only update() is called, with the clock advancing between the
\* ticks, an active piece is eventually committed; every tick moves it one
\* row down until it is blocked, and the first tick that finds the lock
\* timer has run for lockDelayMs commits it.
C37_TicksCommitThePiece ==
  /\ \A c \in 0..MaxTickCommits :
       (ticksOnly /\ HasPiece /\ commits = c) ~> (commits > c)
  /\ [][ticksOnly /\ HasPiece => TickOnPiece]_vars

\* The ticks alone have committed a piece, and the piece after it is
\* blocked with its timer running.
C37_Witness ==
  /\ ticksOnly
  /\ commits > MaxPlayedCommits
  /\ HasPiece
  /\ Blocked
  /\ lockDelayStartTime # << >>

\* The events the handler that ran last has triggered.
TriggeredEvents == {triggered[i].event : i \in 1..Len(triggered)}

\* The sockets an event can still come from.
LiveSockets ==
  {socket \in Sockets : readyState[socket] \in {"CONNECTING", "OPEN", "CLOSING"}}

\* C38: reconnectAttempts stays within 0..maxReconnectAttempts and is 0 after
\* every successful open; the k-th reconnect scheduled since the last
\* successful open waits reconnectInterval * 2^(k-1) ms; and once
\* maxReconnectAttempts reconnects have been scheduled without a successful
\* open, a further failure schedules nothing and triggers
\* 'maxReconnectAttemptsReached'.
C38_ReconnectsBackOffAndStop ==
  /\ reconnectAttempts \in 0..maxReconnectAttempts
  /\ consecutive \in 0..maxReconnectAttempts
  /\ \A socket \in Sockets :
       readyState[socket] = "CONNECTING" =>
         onopen(Client, socket).reconnectAttempts = 0
  /\ \A i \in 1..Len(timers) :
       timers[i].delay = reconnectInterval * 2 ^ (timers[i].rank - 1)
  /\ consecutive = maxReconnectAttempts =>
       /\ \A socket \in LiveSockets :
            LET c == onclose(Client, socket, 1006)
            IN /\ c.timers = timers
               /\ "maxReconnectAttemptsReached"
                    \in {c.triggered[i].event : i \in 1..Len(c.triggered)}
       /\ LET c == scheduleReconnect([Client EXCEPT !.triggered = << >>])
          IN /\ c.timers = timers
             /\ c.triggered[1].event = "maxReconnectAttemptsReached"

\* Five sockets in a row have failed after the first one, close() has not
\* been called, and the failure of the last one has triggered
\* 'maxReconnectAttemptsReached' and scheduled nothing.
C38_Witness ==
  /\ url = "valid"
  /\ ~closeCalled
  /\ consecutive = maxReconnectAttempts
  /\ timers = << >>
  /\ "maxReconnectAttemptsReached" \in TriggeredEvents

\* What the sends of the queued messages on the socket append to the log.
SentFromQueue(socket) ==
  [i \in 1..Len(messageQueue) |-> <<socket, Data(messageQueue[i])>>]

\* C39: a message given to send while the socket is not open is queued, and
\* the next open sends every queued message once, in the order of the queue,
\* before the handlers of 'open' run, and leaves the queue empty.
C39_QueueIsFlushedOnOpen ==
  /\ ws = 0 \/ readyState[ws] # "OPEN" =>
       \A message \in Messages :
         /\ ~send(Client, message).threw
         /\ send(Client, message).c.messageQueue = Append(messageQueue, message)
  /\ \A socket \in Sockets :
       readyState[socket] = "CONNECTING" =>
         LET c == onopen(Client, socket)
         IN /\ c.flush = "empty"
            /\ c.messageQueue = << >>
            /\ c.sent = sent \o SentFromQueue(socket)
            /\ c.triggered = <<[event |-> "open", queued |-> 0,
                                sent |-> Len(c.sent)]>>

\* C40: once close() has been called, connect() does not run again.
C40_NoConnectAfterClose ==
  closeCalled => ~connectedAfterClose

====
